---- MODULE Spec2Model ----
(***************************************************************************)
(* Model of the three supplier-catalog extractors of                       *)
(* server/python_services:                                                 *)
(*   simple_web_crawler.py  (SimpleWebCrawler, requests + BeautifulSoup)   *)
(*   bulk_web_crawler.py    (SupplierCrawlerSpider, Scrapy)                *)
(*   bulk_pdf_extractor.py  (BulkPDFExtractor, pdfplumber)                 *)
(*                                                                         *)
(* Python values.  A str is a sequence of tokens (<<>> is '').  An         *)
(* optional value is <<>> for None and <<v>> for the value v.  A dict is a *)
(* function from its keys.  A list is a sequence, a set a set.             *)
(***************************************************************************)
EXTENDS Integers, Sequences, FiniteSets, TLC

VARIABLES
    variant,        \* which program runs: "simple", "scrapy" or "pdf"
    pc,             \* position of the program's top-level sequence
    company_data,   \* self.company_data
    products_data,  \* self.products_data
    visited_urls,   \* self.visited_urls / self.visited_product_urls
    main_soup,      \* the anchors of the parsed main page, None before the fetch
    company_links,  \* the company links still to be crawled, in list order
    product_links,  \* the product links still to be crawled, in list order
    requests,       \* every network request issued so far: [url, kind]
    failed_pages,   \* the URLs whose page handler ended in its except branch
    last_page,      \* history: the page the last step gave to a company-page
                    \* handler, None when it gave none (another step, a
                    \* failed fetch)
    slept,          \* history: the number of time.sleep(0.5) calls made
    output,         \* what the program printed: a sequence of envelopes
    pdf,            \* the opened document: a sequence of pages, None before
    page_no,        \* the number of pages extract_product_listings has done
    all_text,       \* all_text of extract_product_listings
    candidates      \* history: every named product record the tables and
                    \* then the text sections gave, in that order

webvars == << visited_urls, main_soup, company_links, product_links, requests,
             failed_pages, last_page, slept >>
pdfvars == << pdf, page_no, all_text, candidates >>
vars == << variant, pc, company_data, products_data, output, webvars, pdfvars >>

---------------------------------------------------------------------------
(* Bounds of the model                                                     *)

MaxLinks == 2       \* anchors on the main page
MaxPages == 2       \* pages of a document
MaxShuffled == 4    \* the largest set all of whose orders are followed

---------------------------------------------------------------------------
(* Program constants of the two crawlers                                   *)

CompanyPageLimit == 3       \* company_links[:3]
SimpleProductLimit == 20    \* product_links[:20]
ScrapyProductLimit == 50    \* product_links[:50]

---------------------------------------------------------------------------
(* Python values                                                           *)

None == <<>>
Some(v) == <<v>>
Val(o) == o[1]

\* bool(o) of an optional str: None and '' are falsy
Truthy(o) == o # None /\ Val(o) # <<>>

EmptyDict == [k \in {} |-> None]

\* dict.get(k) and dict.get(k, default)
Get(d, k) == IF k \in DOMAIN d THEN d[k] ELSE None
GetDefault(d, k, default) == IF k \in DOMAIN d THEN d[k] ELSE default

\* d[k] = v
Put(d, k, v) == [x \in DOMAIN d \cup {k} |-> IF x = k THEN v ELSE d[x]]

\* one list of the elements of S
RECURSIVE SomeOrder(_)
SomeOrder(S) ==
    IF S = {} THEN <<>>
    ELSE LET x == CHOOSE y \in S : TRUE
         IN <<x>> \o SomeOrder(S \ {x})

\* every list that list(set(...)) may produce from the set S; of a set of
\* more than MaxShuffled elements one list only is followed
Orders(S) ==
    IF Cardinality(S) > MaxShuffled THEN {SomeOrder(S)}
    ELSE {s \in [1..Cardinality(S) -> S] :
             \A i, j \in 1..Cardinality(S) : i # j => s[i] # s[j]}

Range(s) == {s[i] : i \in 1..Len(s)}

\* A faulty slice that keeps the whole list: the page limits must fail for it.
TakeAll(s, n) == s

\* s[:n]
Take(s, n) == SubSeq(s, 1, IF Len(s) < n THEN Len(s) ELSE n)

---------------------------------------------------------------------------
(* Tables of the tokens the model's texts are made of: what Python's str   *)
(* methods return for each.  A token named "<prose N>" stands for N        *)
(* characters of running text with punctuation and none of the keywords.   *)

\* t.lower()
LowerTok(t) ==
    CASE t \in {"1 Mill Lane, Leeds LS1 4AP"} -> "1 mill lane, leeds ls1 4ap"
      [] t \in {"A"} -> "a"
      [] t \in {"ACME", "Acme"} -> "acme"
      [] t \in {"About"} -> "about"
      [] t \in {"Address"} -> "address"
      [] t \in {"BOTTLE", "Bottle"} -> "bottle"
      [] t \in {"Blue"} -> "blue"
      [] t \in {"Cap"} -> "cap"
      [] t \in {"Capacity"} -> "capacity"
      [] t \in {"Clear"} -> "clear"
      [] t \in {"Code"} -> "code"
      [] t \in {"Color"} -> "color"
      [] t \in {"Company"} -> "company"
      [] t \in {"Contact"} -> "contact"
      [] t \in {"Content"} -> "content"
      [] t \in {"Description"} -> "description"
      [] t \in {"Email"} -> "email"
      [] t \in {"Glass", "GLASS"} -> "glass"
      [] t \in {"Height"} -> "height"
      [] t \in {"Item"} -> "item"
      [] t \in {"Jar", "JAR"} -> "jar"
      [] t \in {"Large"} -> "large"
      [] t \in {"Lid"} -> "lid"
      [] t \in {"Ltd"} -> "ltd"
      [] t \in {"ML"} -> "ml"
      [] t \in {"Material"} -> "material"
      [] t \in {"Name"} -> "name"
      [] t \in {"Notes"} -> "notes"
      [] t \in {"Overview"} -> "overview"
      [] t \in {"PACKAGING", "Packaging"} -> "packaging"
      [] t \in {"PET"} -> "pet"
      [] t \in {"Phone"} -> "phone"
      [] t \in {"Product"} -> "product"
      [] t \in {"Recycled"} -> "recycled"
      [] t \in {"SKU"} -> "sku"
      [] t \in {"Sheet"} -> "sheet"
      [] t \in {"Size"} -> "size"
      [] t \in {"Unknown"} -> "unknown"
      [] t \in {"Weight"} -> "weight"
      [] OTHER -> t

\* s.lower()
Lower(s) == [i \in 1..Len(s) |-> LowerTok(s[i])]

\* len(t)
TokLen(t) ==
    CASE t \in {"1 Mill Lane, Leeds LS1 4AP"} -> 26
      [] t \in {"555-123-4567", "www.acme.com"} -> 12
      [] t \in {"<prose 120>"} -> 120
      [] t \in {"<prose 40>"} -> 40
      [] t \in {"<prose 60>"} -> 60
      [] t \in {"BOTTLE", "Bottle", "Weight", "weight", "https:", "Height"} -> 6
      [] t \in {"Description", "description"} -> 11
      [] t \in {"Glass", "GLASS", "glass", "Clear", "Color", "color"} -> 5
      [] t \in {"Notes", "about", "About", "http:", "Email", "Large"} -> 5
      [] t \in {"Phone", "Sheet"} -> 5
      [] t \in {"Jar", "JAR", "jar", "PET", "Cap", "SKU"} -> 3
      [] t \in {"sku", "Ltd", "com", "100", "180", "250"} -> 3
      [] t \in {"500", "150", "Lid"} -> 3
      [] t \in {"Material", "Capacity", "Recycled", "material", "capacity", "recycled"} -> 8
      [] t \in {"Overview", "acme.com", "<a href=", "https://"} -> 8
      [] t \in {"Name", "Item", "Size", "Code", "name", "item"} -> 4
      [] t \in {"size", "code", "Blue", "ACME", "Acme", "shop"} -> 4
      [] t \in {"acme", "evil", ".pdf", ".jpg", "</a>"} -> 4
      [] t \in {"PACKAGING", "Packaging"} -> 9
      [] t \in {"Product", "product", "content", "Content", "company", "contact"} -> 7
      [] t \in {"Contact", "Company", "mailto:", "Unknown", "Address"} -> 7
      [] t \in {"ab", "kg", "ml", "oz", "30", "ML"} -> 2
      [] t \in {"us"} -> 2
      [] t \in {"info@acme.com"} -> 13
      [] t \in {"sales@acme.com"} -> 14
      [] OTHER -> 1

\* the keywords the program searches for that are substrings of t, and t
Subs(t) ==
    CASE t \in {"<a href="} -> {"<a href=", "ref"}
      [] t \in {"acme.com"} -> {".com", "acme.com"}
      [] t \in {"capacity"} -> {"cap", "capacity"}
      [] t \in {"description"} -> {"desc", "description"}
      [] t \in {"http:"} -> {"http", "http:"}
      [] t \in {"https:"} -> {"http", "https:"}
      [] t \in {"https://"} -> {"http", "https://"}
      [] t \in {"info@acme.com"} -> {".com", "info@acme.com"}
      [] t \in {"recycled"} -> {"recycle", "recycled"}
      [] t \in {"sales@acme.com"} -> {".com", "sales@acme.com"}
      [] t \in {"www.acme.com"} -> {".com", "www.", "www.acme.com"}
      [] OTHER -> {t}

\* t consists of ASCII letters only ([A-Za-z]+)
IsAlphaTok(t) ==
    CASE t \in {"Glass", "Jar", "GLASS", "JAR", "glass", "jar"} -> TRUE
      [] t \in {"PET", "BOTTLE", "Bottle", "Cap", "Clear", "Material"} -> TRUE
      [] t \in {"Capacity", "Weight", "Name", "Item", "Product", "Recycled"} -> TRUE
      [] t \in {"Size", "Code", "material", "capacity", "weight", "name"} -> TRUE
      [] t \in {"item", "product", "recycled", "content", "Content", "size"} -> TRUE
      [] t \in {"code", "Color", "color", "Blue", "SKU", "sku"} -> TRUE
      [] t \in {"Description", "description", "ACME", "PACKAGING", "Acme", "Packaging"} -> TRUE
      [] t \in {"Ltd", "Overview", "Notes", "about", "company", "contact"} -> TRUE
      [] t \in {"About", "Contact", "Company", "shop", "acme", "evil"} -> TRUE
      [] t \in {"com", "x", "z", "ab", "a", "b"} -> TRUE
      [] t \in {"c", "d", "g", "kg", "ml", "l"} -> TRUE
      [] t \in {"oz", "Unknown", "A", "Address", "Email", "Height"} -> TRUE
      [] t \in {"Large", "Lid", "ML", "Phone", "Sheet", "us"} -> TRUE
      [] OTHER -> FALSE

\* t has a lower-case letter
HasLowerCase(t) ==
    CASE t \in {"Glass", "Jar", "glass", "jar", "Bottle", "Cap"} -> TRUE
      [] t \in {"Clear", "Material", "Capacity", "Weight", "Name", "Item"} -> TRUE
      [] t \in {"Product", "Recycled", "Size", "Code", "material", "capacity"} -> TRUE
      [] t \in {"weight", "name", "item", "product", "recycled", "content"} -> TRUE
      [] t \in {"Content", "size", "code", "Color", "color", "Blue"} -> TRUE
      [] t \in {"sku", "Description", "description", "Acme", "Packaging", "Ltd"} -> TRUE
      [] t \in {"Overview", "Notes", "about", "company", "contact", "About"} -> TRUE
      [] t \in {"Contact", "Company", "shop", "acme", "evil", "com"} -> TRUE
      [] t \in {"x", "z", "ab", "a", "b", "c"} -> TRUE
      [] t \in {"d", "g", "kg", "ml", "l", "oz"} -> TRUE
      [] t \in {"mailto:", "https:", "http:", ".pdf", ".jpg", "acme.com"} -> TRUE
      [] t \in {"<a href=", "</a>", "info@acme.com", "sales@acme.com", "1 Mill Lane, Leeds LS1 4AP", "www.acme.com"} -> TRUE
      [] t \in {"Unknown", "https://", "Address", "Email", "Height", "Large"} -> TRUE
      [] t \in {"Lid", "Phone", "Sheet", "us", "<prose 60>", "<prose 120>"} -> TRUE
      [] t \in {"<prose 40>"} -> TRUE
      [] OTHER -> FALSE

\* t has an upper-case letter
HasUpperCase(t) ==
    CASE t \in {"Glass", "Jar", "GLASS", "JAR", "PET", "BOTTLE"} -> TRUE
      [] t \in {"Bottle", "Cap", "Clear", "Material", "Capacity", "Weight"} -> TRUE
      [] t \in {"Name", "Item", "Product", "Recycled", "Size", "Code"} -> TRUE
      [] t \in {"Content", "Color", "Blue", "SKU", "Description", "ACME"} -> TRUE
      [] t \in {"PACKAGING", "Acme", "Packaging", "Ltd", "Overview", "Notes"} -> TRUE
      [] t \in {"About", "Contact", "Company", "1 Mill Lane, Leeds LS1 4AP", "Unknown", "A"} -> TRUE
      [] t \in {"Address", "Email", "Height", "Large", "Lid", "ML"} -> TRUE
      [] t \in {"Phone", "Sheet"} -> TRUE
      [] OTHER -> FALSE

\* t.title()
TitleTok(t) ==
    CASE t \in {".jpg"} -> ".Jpg"
      [] t \in {".pdf"} -> ".Pdf"
      [] t \in {"1 Mill Lane, Leeds LS1 4AP"} -> "1 Mill Lane, Leeds Ls1 4Ap"
      [] t \in {"</a>"} -> "</A>"
      [] t \in {"<a href="} -> "<A Href="
      [] t \in {"ACME", "acme"} -> "Acme"
      [] t \in {"BOTTLE"} -> "Bottle"
      [] t \in {"GLASS", "glass"} -> "Glass"
      [] t \in {"JAR", "jar"} -> "Jar"
      [] t \in {"PACKAGING"} -> "Packaging"
      [] t \in {"PET"} -> "Pet"
      [] t \in {"SKU", "sku"} -> "Sku"
      [] t \in {"a"} -> "A"
      [] t \in {"ab"} -> "Ab"
      [] t \in {"about"} -> "About"
      [] t \in {"acme.com"} -> "Acme.Com"
      [] t \in {"b"} -> "B"
      [] t \in {"c"} -> "C"
      [] t \in {"capacity"} -> "Capacity"
      [] t \in {"code"} -> "Code"
      [] t \in {"color"} -> "Color"
      [] t \in {"com"} -> "Com"
      [] t \in {"company"} -> "Company"
      [] t \in {"contact"} -> "Contact"
      [] t \in {"content"} -> "Content"
      [] t \in {"d"} -> "D"
      [] t \in {"description"} -> "Description"
      [] t \in {"evil"} -> "Evil"
      [] t \in {"g"} -> "G"
      [] t \in {"http:"} -> "Http:"
      [] t \in {"https:"} -> "Https:"
      [] t \in {"https://"} -> "Https://"
      [] t \in {"info@acme.com"} -> "Info@Acme.Com"
      [] t \in {"item"} -> "Item"
      [] t \in {"kg"} -> "Kg"
      [] t \in {"l"} -> "L"
      [] t \in {"mailto:"} -> "Mailto:"
      [] t \in {"material"} -> "Material"
      [] t \in {"ml", "ML"} -> "Ml"
      [] t \in {"name"} -> "Name"
      [] t \in {"oz"} -> "Oz"
      [] t \in {"product"} -> "Product"
      [] t \in {"recycled"} -> "Recycled"
      [] t \in {"sales@acme.com"} -> "Sales@Acme.Com"
      [] t \in {"shop"} -> "Shop"
      [] t \in {"size"} -> "Size"
      [] t \in {"us"} -> "Us"
      [] t \in {"weight"} -> "Weight"
      [] t \in {"www.acme.com"} -> "Www.Acme.Com"
      [] t \in {"x"} -> "X"
      [] t \in {"z"} -> "Z"
      [] OTHER -> t

\* the tokens that \d+(?:\.\d+)? matches whole
NumToks == {"0", "1", "2", "30", "100", "180", "250", "500", "150"}

\* float(t), int(t) of a number token
NumVal(t) ==
    CASE t \in {"0"} -> 0
      [] t \in {"1"} -> 1
      [] t \in {"2"} -> 2
      [] t \in {"30"} -> 30
      [] t \in {"100"} -> 100
      [] t \in {"180"} -> 180
      [] t \in {"250"} -> 250
      [] t \in {"500"} -> 500
      [] t \in {"150"} -> 150
      [] OTHER -> 0

\* what (g|kg|gram|kilogram) matches at the start of the lower-cased token t:
\* the first alternative that fits, "" when none does
WeightUnitAt(t) ==
    CASE t \in {"glass", "g"} -> "g"
      [] t \in {"kg"} -> "kg"
      [] OTHER -> ""

\* the same for (ml|l|liter|litre|oz)
CapacityUnitAt(t) ==
    CASE t \in {"ltd", "l", "large", "lid"} -> "l"
      [] t \in {"ml"} -> "ml"
      [] t \in {"oz"} -> "oz"
      [] OTHER -> ""

\* what address_patterns[pattern] matches inside the token t, "" when nothing
AddressMatch(pattern, t) ==
    CASE pattern = 2 /\ t = "1 Mill Lane, Leeds LS1 4AP" -> "1 Mill Lane, Leeds LS1 4AP"
      [] OTHER -> ""

\* the same for email_pattern
EmailMatch(t) ==
    CASE t = "info@acme.com" -> "info@acme.com"
      [] t = "sales@acme.com" -> "sales@acme.com"
      [] OTHER -> ""

\* the same for phone_patterns[pattern]
PhoneMatch(pattern, t) ==
    CASE pattern = 2 /\ t = "555-123-4567" -> "555-123-4567"
      [] OTHER -> ""

\* the same for website_patterns[pattern]
WebsiteMatch(pattern, t) ==
    CASE pattern = 2 /\ t = "www.acme.com" -> "www.acme.com"
      [] pattern = 3 /\ t = "acme.com" -> "acme.com"
      [] pattern = 3 /\ t = "info@acme.com" -> "acme.com"
      [] pattern = 3 /\ t = "sales@acme.com" -> "acme.com"
      [] pattern = 3 /\ t = "www.acme.com" -> "acme.com"
      [] OTHER -> ""

---------------------------------------------------------------------------
(* URLs.  scheme is "" or ends in ":", host is the sequence of the labels  *)
(* of netloc, path the sequence of the pieces of the path, hash says       *)
(* whether a "#" is present and frag is what follows it.                   *)

Url(scheme, host, path, hash, frag) ==
    [scheme |-> scheme, host |-> host, path |-> path, hash |-> hash, frag |-> frag]

StartHost == <<"acme", "com">>
start_url == Url("https:", StartHost, <<>>, FALSE, <<>>)

\* the pieces a substring test of the URL text can hit
Pieces(u) ==
    (IF u.scheme = "" THEN {} ELSE {u.scheme})
        \cup Range(u.host) \cup Range(u.path)
        \cup (IF u.hash THEN {"#"} ELSE {}) \cup Range(u.frag)

\* pattern in href
Contains(u, pattern) == \E p \in Pieces(u) : pattern \in Subs(p)

\* pattern in href.lower()
ContainsLower(u, pattern) == \E p \in Pieces(u) : pattern \in Subs(LowerTok(p))

\* urllib.parse.urljoin(base, href)
urljoin(base, href) ==
    IF href.scheme # "" /\ href.scheme # base.scheme THEN href
    ELSE IF href.host # <<>> THEN
        Url(base.scheme, href.host, href.path, href.hash, href.frag)
    ELSE IF href.path = <<>> /\ href.hash THEN
        Url(base.scheme, base.host, base.path, href.hash, href.frag)
    ELSE Url(base.scheme, base.host, href.path, href.hash, href.frag)

\* urlparse(url).netloc
netloc(u) == u.host

\* domain.endswith('.' + base)
IsSubdomain(domain, base) ==
    /\ Len(domain) > Len(base)
    /\ base # <<>>
    /\ SubSeq(domain, Len(domain) - Len(base) + 1, Len(domain)) = base

---------------------------------------------------------------------------
(* Text helpers.  A token is one word, one number, one unit or one         *)
(* punctuation character; a substring test is answered token by token.    *)

\* kw in s
StrHas(s, kw) == \E i \in 1..Len(s) : kw \in Subs(s[i])

\* len(s): the characters of the tokens of s, summed by halves
RECURSIVE CharLen(_)
CharLen(s) ==
    IF s = <<>> THEN 0
    ELSE IF Len(s) = 1 THEN TokLen(s[1])
    ELSE CharLen(SubSeq(s, 1, Len(s) \div 2)) + CharLen(SubSeq(s, Len(s) \div 2 + 1, Len(s)))

\* \s
IsSpace(t) == t \in {" ", "\n"}

\* str.strip() / get_text(strip=True)
RECURSIVE LStrip(_)
LStrip(s) == IF s # <<>> /\ IsSpace(s[1]) THEN LStrip(Tail(s)) ELSE s
RECURSIVE RStrip(_)
RStrip(s) ==
    IF s # <<>> /\ IsSpace(s[Len(s)]) THEN RStrip(SubSeq(s, 1, Len(s) - 1)) ELSE s
Strip(s) == RStrip(LStrip(s))

\* index of the first token at or after i that is not whitespace (\s*)
RECURSIVE SkipSpace(_, _)
SkipSpace(s, i) == IF i <= Len(s) /\ IsSpace(s[i]) THEN SkipSpace(s, i + 1) ELSE i

\* the weight unit the pattern matches right after the number at index i
WeightUnitAfter(s, i) ==
    LET j == SkipSpace(s, i + 1)
    IN IF j <= Len(s) THEN WeightUnitAt(LowerTok(s[j])) ELSE ""

CapacityUnitAfter(s, i) ==
    LET j == SkipSpace(s, i + 1)
    IN IF j <= Len(s) THEN CapacityUnitAt(LowerTok(s[j])) ELSE ""

\* leftmost index satisfying P, 0 when there is none
FirstIndex(s, P(_)) ==
    IF \E i \in 1..Len(s) : P(i)
    THEN CHOOSE i \in 1..Len(s) : P(i) /\ \A j \in 1..(i - 1) : ~P(j)
    ELSE 0

---------------------------------------------------------------------------
(* The web pages the crawlers can meet.                                    *)

Anchor(href, text, cls) == [href |-> href, text |-> text, cls |-> cls]
Rel(path) == Url("", <<>>, path, FALSE, <<>>)

\* the <a> elements a main page is built from
AnchorPool ==
    { Anchor(Rel(<<"about">>), <<"About">>, ""),
      Anchor(Rel(<<"company", "product">>), <<>>, ""),
      Anchor(Rel(<<"product", "x">>), <<>>, ""),
      Anchor(Rel(<<"about", "product", ".pdf">>), <<>>, ""),
      Anchor(Url("", <<>>, <<>>, TRUE, <<"contact">>), <<"Contact">>, ""),
      Anchor(Url("mailto:", <<>>, <<"company", "@", "acme.com">>, FALSE, <<>>), <<>>, ""),
      Anchor(Url("https:", <<"shop", "acme", "com">>, <<"Jar", "z">>, FALSE, <<>>),
             <<>>, "product-item"),
      Anchor(Url("https:", <<"evil", "com">>, <<"company", "product">>, FALSE, <<>>),
             <<>>, "") }

\* what extract_email, extract_address and extract_phone find on one page
NoContact == [email |-> None, address |-> None, phone |-> None]
InfoContact == [email |-> Some(<<"info@acme.com">>), address |-> None, phone |-> None]
SalesContact ==
    [email |-> Some(<<"sales@acme.com">>),
     address |-> Some(<<"1 Mill Lane, Leeds LS1 4AP">>),
     phone |-> Some(<<"555-123-4567">>)]

\* the text content of a page, as far as the company extractors read it;
\* description is what extract_description returns: None, '' or a text
Text(contact, description) ==
    [name |-> <<"Acme">>, email |-> contact.email, address |-> contact.address,
     phone |-> contact.phone, description |-> description]

Texts ==
    { Text(NoContact, None),
      Text(NoContact, Some(<<"a">>)),
      Text(NoContact, Some(<<"a", "b", "c">>)),
      Text(InfoContact, Some(<<>>)),
      Text(InfoContact, Some(<<"a", "b">>)),
      Text(SalesContact, None),
      Text(SalesContact, Some(<<"c", "d">>)) }

\* the <a> elements of a long catalogue page: one company link and one
\* product link more than the crawlers follow
Catalogue ==
    { Anchor(Rel(<<"about", ToString(n)>>), <<>>, "") : n \in 1..(CompanyPageLimit + 1) }
    \cup { Anchor(Rel(<<"product", ToString(n)>>), <<>>, "") :
               n \in 1..(ScrapyProductLimit + 1) }

\* a parsed main page: its <a> elements and its text
MainSoups ==
    { [anchors |-> a, text |-> t] :
        a \in {A \in SUBSET AnchorPool : Cardinality(A) <= MaxLinks}, t \in Texts }
    \cup { [anchors |-> Catalogue, text |-> Text(NoContact, None)] }

\* What the download of a company page and of a product page can give: a
\* failure (None) or a page.  Behind a main page of more than MaxShuffled
\* links only the failing downloads are followed.
CompanyResponses(main) ==
    IF Cardinality(main.anchors) > MaxShuffled THEN {None}
    ELSE {None} \cup {Some(t) : t \in Texts}

SpecRow(key, value) == [key |-> key, value |-> value]

\* a parsed product page: the texts of the elements the name selectors and
\* the description selectors find (in selector order), the key/value rows of
\* its tables followed by those of its definition lists, get_text(), and the
\* image URLs the image selectors find
ProductSoups ==
    { [names |-> << <<"Glass", " ", "Jar">> >>,
       descs |-> << <<"Clear", " ", "jar">> >>,
       rows |-> << SpecRow(<<"Material">>, <<"Glass">>),
                   SpecRow(<<"Weight">>, <<"180", " ", "g">>) >>,
       text |-> <<"Glass", " ", "Jar", " ", "30", " ", "g", " ", "Material", "Glass",
                  "Weight", "180", " ", "g", " ", "250", "ml">>,
       images |-> {<<"jar", ".jpg">>}],
      [names |-> << <<"GLASS", " ", "JAR">> >>,
       descs |-> <<>>,
       rows |-> <<>>,
       text |-> <<"GLASS", " ", "JAR">>,
       images |-> {}],
      [names |-> << <<"ab">>, <<"Cap">> >>,
       descs |-> <<>>,
       rows |-> << SpecRow(<<"Recycled">>, <<"30", "%">>),
                   SpecRow(<<"Weight">>, <<"500">>) >>,
       text |-> <<"ab", "Cap", "Recycled", "30", "%", "Weight", "500">>,
       images |-> {}],
      [names |-> <<>>,
       descs |-> <<>>,
       rows |-> <<>>,
       text |-> <<"500", " ", "g">>,
       images |-> {}] }

ProductResponses(main) ==
    IF Cardinality(main.anchors) > MaxShuffled THEN {None}
    ELSE {None} \cup {Some(p) : p \in ProductSoups}

---------------------------------------------------------------------------
(* simple_web_crawler.py: SimpleWebCrawler                                 *)

\* skip_patterns and product_indicators of is_product_link
SimpleSkipPatterns ==
    {"mailto:", "tel:", "#", "javascript:", ".pdf", ".jpg", ".png", ".css", ".js"}
SimpleProductIndicators ==
    {"product", "bottle", "container", "jar", "cap", "closure", "packaging"}

\* the href attribute is missing or empty
HrefEmpty(h) == h = Url("", <<>>, <<>>, FALSE, <<>>)

base_domain == netloc(start_url)

is_same_domain(url) ==
    netloc(url) = base_domain \/ IsSubdomain(netloc(url), base_domain)

is_product_link(href) ==
    IF HrefEmpty(href) THEN FALSE
    ELSE IF \E pattern \in SimpleSkipPatterns : ContainsLower(href, pattern) THEN FALSE
    ELSE \E indicator \in SimpleProductIndicators : ContainsLower(href, indicator)

\* soup.select over the six selectors of find_company_info_links
CompanySelected(soup) ==
    {a \in soup.anchors :
        \/ \E kw \in {"about", "contact", "company"} : Contains(a.href, kw)
        \/ \E word \in {"About", "Contact", "Company"} : word \in Range(a.text)}

\* the set find_company_info_links turns into a list
find_company_info_links(soup) ==
    {urljoin(start_url, a.href) :
        a \in {b \in CompanySelected(soup) :
                 ~HrefEmpty(b.href) /\ is_same_domain(urljoin(start_url, b.href))}}

\* soup.select over the nine selectors of find_product_links
ProductSelected(soup) ==
    {a \in soup.anchors :
        \/ \E kw \in {"product", "bottle", "container", "packaging"} : Contains(a.href, kw)
        \/ a.cls \in {"product-item", "product-card", "product-grid", "catalog-item",
                      "product"}}

\* the set find_product_links turns into a list
find_product_links(soup) ==
    {urljoin(start_url, a.href) :
        a \in {b \in ProductSelected(soup) :
                 /\ ~HrefEmpty(b.href)
                 /\ is_product_link(b.href)
                 /\ is_same_domain(urljoin(start_url, b.href))}}

extract_email(text) == text.email
extract_address(text) == text.address
extract_phone(text) == text.phone
extract_description(text) == text.description
extract_company_name(text) == text.name

\* self.company_data.update({...}) of extract_company_profile
extract_company_profile(data, text, url) ==
    [k \in DOMAIN data \cup {"companyName", "website", "email", "address", "phone",
                             "supplierType", "description"} |->
        CASE k = "companyName" -> Some(extract_company_name(text))
          [] k = "website" -> Some(url)
          [] k = "email" -> extract_email(text)
          [] k = "address" -> extract_address(text)
          [] k = "phone" -> extract_phone(text)
          [] k = "supplierType" -> Some(<<"Packaging">>)
          [] k = "description" -> extract_description(text)
          [] OTHER -> data[k]]

\* A faulty company-page body that writes the three contact fields without
\* looking at what the profile holds: the contact-field property must fail
\* for it.
CompanyPageBodyOverwriting(data, text) ==
    [data |-> Put(Put(Put(data, "email", extract_email(text)),
                      "address", extract_address(text)),
                  "phone", extract_phone(text)),
     raised |-> FALSE]

\* A faulty company-page body that also takes a description of the same
\* length (>= for >): the description property must fail for it.
CompanyPageBodyNotShorter(data, text) ==
    LET description == extract_description(text)
        current == GetDefault(data, "description", Some(<<>>))
    IN IF ~Truthy(description) THEN [data |-> data, raised |-> FALSE]
       ELSE IF current = None THEN [data |-> data, raised |-> TRUE]
       ELSE IF CharLen(Val(description)) >= CharLen(Val(current))
            THEN [data |-> Put(data, "description", description), raised |-> FALSE]
            ELSE [data |-> data, raised |-> FALSE]

\* The statements of crawl_company_page after the fetch (the same as the
\* body of the Scrapy parse_company_page).  len(None) raises TypeError, and
\* the fields written before it stay written.
CompanyPageBody(data, text) ==
    LET d1 == IF ~Truthy(Get(data, "email"))
              THEN Put(data, "email", extract_email(text)) ELSE data
        d2 == IF ~Truthy(Get(d1, "address"))
              THEN Put(d1, "address", extract_address(text)) ELSE d1
        d3 == IF ~Truthy(Get(d2, "phone"))
              THEN Put(d2, "phone", extract_phone(text)) ELSE d2
        description == extract_description(text)
        current == GetDefault(d3, "description", Some(<<>>))
    IN IF ~Truthy(description) THEN [data |-> d3, raised |-> FALSE]
       ELSE IF current = None THEN [data |-> d3, raised |-> TRUE]
       ELSE IF CharLen(Val(description)) > CharLen(Val(current))
            THEN [data |-> Put(d3, "description", description), raised |-> FALSE]
            ELSE [data |-> d3, raised |-> FALSE]

\* extract_by_selectors: the first element text that is non-empty and longer
\* than minLen characters
ExtractBySelectors(texts, minLen) ==
    LET ok(i) == Strip(texts[i]) # <<>> /\ CharLen(Strip(texts[i])) > minLen
        i == FirstIndex(texts, ok)
    IN IF i = 0 THEN None ELSE Some(Strip(texts[i]))

IsNum(s, i) == s[i] \in NumToks

\* A faulty weight parser that writes no unit when the text has none: the
\* pairing of quantity and unit must fail for it.
parse_weight_without_default(value, specs) ==
    LET num(i) == IsNum(value, i)
        i == FirstIndex(value, num)
        unit == WeightUnitAfter(value, i)
    IN IF i = 0 THEN specs
       ELSE IF unit = "" THEN Put(specs, "weight", Some(NumVal(value[i])))
       ELSE Put(Put(specs, "weight", Some(NumVal(value[i]))), "weight_unit", Some(<<unit>>))

\* parse_weight(value, specs)
parse_weight(value, specs) ==
    LET num(i) == IsNum(value, i)
        i == FirstIndex(value, num)
        unit == WeightUnitAfter(value, i)
    IN IF i = 0 THEN specs
       ELSE Put(Put(specs, "weight", Some(NumVal(value[i]))),
                "weight_unit", Some(<<IF unit # "" THEN unit ELSE "g">>))

\* parse_capacity(value, specs)
parse_capacity(value, specs) ==
    LET num(i) == IsNum(value, i)
        i == FirstIndex(value, num)
        unit == CapacityUnitAfter(value, i)
    IN IF i = 0 THEN specs
       ELSE Put(Put(specs, "capacity", Some(NumVal(value[i]))),
                "capacity_unit", Some(<<IF unit # "" THEN unit ELSE "ml">>))

\* extract_percentage(text): (\d+(?:\.\d+)?)\s*%
extract_percentage(text) ==
    LET pct(i) == /\ IsNum(text, i)
                  /\ SkipSpace(text, i + 1) <= Len(text)
                  /\ text[SkipSpace(text, i + 1)] = "%"
        i == FirstIndex(text, pct)
    IN IF i = 0 THEN None ELSE Some(NumVal(text[i]))

\* parse_spec_value(key, value, specs) of the simple crawler
parse_spec_value(key, value, specs) ==
    IF StrHas(key, "material") THEN Put(specs, "material", Some(value))
    ELSE IF StrHas(key, "weight") THEN parse_weight(value, specs)
    ELSE IF StrHas(key, "capacity") \/ StrHas(key, "volume") THEN parse_capacity(value, specs)
    ELSE IF StrHas(key, "color") \/ StrHas(key, "colour") THEN Put(specs, "color", Some(value))
    ELSE IF StrHas(key, "sku") \/ StrHas(key, "code") THEN Put(specs, "sku", Some(value))
    ELSE IF StrHas(key, "recycle")
         THEN Put(specs, "recycled_content", extract_percentage(value))
    ELSE specs

\* extract_specs_from_text(text, specs) of the simple crawler
extract_specs_from_text(text, specs) ==
    LET w(i) == IsNum(text, i) /\ WeightUnitAfter(text, i) # ""
        wi == FirstIndex(text, w)
        s1 == IF wi # 0 /\ "weight" \notin DOMAIN specs
              THEN Put(Put(specs, "weight", Some(NumVal(text[wi]))),
                       "weight_unit", Some(<<WeightUnitAfter(text, wi)>>))
              ELSE specs
        c(i) == IsNum(text, i) /\ CapacityUnitAfter(text, i) # ""
        ci == FirstIndex(text, c)
    IN IF ci # 0 /\ "capacity" \notin DOMAIN s1
       THEN Put(Put(s1, "capacity", Some(NumVal(text[ci]))),
                "capacity_unit", Some(<<CapacityUnitAfter(text, ci)>>))
       ELSE s1

\* extract_number(text) of the Scrapy spider
extract_number(text) ==
    LET num(i) == IsNum(text, i)
        i == FirstIndex(text, num)
    IN IF i = 0 THEN None ELSE Some(NumVal(text[i]))

\* the dimension branch of the Scrapy parse_spec_value
ParseDimension(key, value, specs) ==
    LET s1 == IF "dimensions" \notin DOMAIN specs
              THEN Put(specs, "dimensions", Some(EmptyDict)) ELSE specs
        dims == Val(s1["dimensions"])
    IN IF StrHas(key, "height")
         THEN Put(s1, "dimensions", Some(Put(dims, "height", extract_number(value))))
       ELSE IF StrHas(key, "width")
         THEN Put(s1, "dimensions", Some(Put(dims, "width", extract_number(value))))
       ELSE IF StrHas(key, "diameter")
         THEN Put(s1, "dimensions", Some(Put(dims, "diameter", extract_number(value))))
       ELSE s1

\* parse_spec_value(key, value, specs) of the Scrapy spider
scrapy_parse_spec_value(key, value, specs) ==
    IF StrHas(key, "material") THEN Put(specs, "material", Some(value))
    ELSE IF StrHas(key, "weight") THEN parse_weight(value, specs)
    ELSE IF StrHas(key, "capacity") \/ StrHas(key, "volume") THEN parse_capacity(value, specs)
    ELSE IF StrHas(key, "color") \/ StrHas(key, "colour") THEN Put(specs, "color", Some(value))
    ELSE IF StrHas(key, "sku") \/ StrHas(key, "code") THEN Put(specs, "sku", Some(value))
    ELSE IF StrHas(key, "recycle")
         THEN Put(specs, "recycled_content", extract_percentage(value))
    ELSE IF \E dim \in {"height", "width", "diameter", "dimension"} : StrHas(key, dim)
         THEN ParseDimension(key, value, specs)
    ELSE specs

\* extract_specs_from_text(text, specs) of the Scrapy spider
scrapy_extract_specs_from_text(text, specs) ==
    LET w(i) == IsNum(text, i) /\ WeightUnitAfter(text, i) # ""
        wi == FirstIndex(text, w)
        s1 == IF wi # 0
              THEN Put(Put(specs, "weight", Some(NumVal(text[wi]))),
                       "weight_unit", Some(<<WeightUnitAfter(text, wi)>>))
              ELSE specs
        c(i) == IsNum(text, i) /\ CapacityUnitAfter(text, i) # ""
        ci == FirstIndex(text, c)
    IN IF ci # 0
       THEN Put(Put(s1, "capacity", Some(NumVal(text[ci]))),
                "capacity_unit", Some(<<CapacityUnitAfter(text, ci)>>))
       ELSE s1

\* the loops of extract_specifications over the rows of the tables and then
\* of the definition lists; which is the program ("simple" or "scrapy")
RECURSIVE ParseRows(_, _, _)
ParseRows(rows, specs, which) ==
    IF rows = <<>> THEN specs
    ELSE LET key == Lower(Strip(rows[1].key))
             value == Strip(rows[1].value)
         IN ParseRows(Tail(rows),
                      IF which = "simple" THEN parse_spec_value(key, value, specs)
                      ELSE scrapy_parse_spec_value(key, value, specs),
                      which)

extract_specifications(soup) ==
    extract_specs_from_text(soup.text, ParseRows(soup.rows, EmptyDict, "simple"))

scrapy_extract_specifications(soup) ==
    scrapy_extract_specs_from_text(soup.text, ParseRows(soup.rows, EmptyDict, "scrapy"))

\* the dict extract_product_data builds; images is list(set(images))[:5]
ProductDict(product_name, description, specs, images, url) ==
    [productName |-> product_name,
     description |-> description,
     materialType |-> Get(specs, "material"),
     weight |-> Get(specs, "weight"),
     weightUnit |-> Get(specs, "weight_unit"),
     capacity |-> Get(specs, "capacity"),
     capacityUnit |-> Get(specs, "capacity_unit"),
     color |-> Get(specs, "color"),
     dimensions |-> Get(specs, "dimensions"),
     recycledContent |-> Get(specs, "recycled_content"),
     sku |-> Get(specs, "sku"),
     productImage |-> IF images # <<>> THEN Some(images[1]) ELSE None,
     additionalImages |-> IF Len(images) > 1 THEN SubSeq(Take(images, 5), 2, Len(Take(images, 5)))
                          ELSE <<>>,
     sourceUrl |-> Some(url)]

\* extract_product_data(soup, url) of the simple crawler: None without a name
extract_product_data(soup, url, images) ==
    LET product_name == ExtractBySelectors(soup.names, 2)
    IN IF ~Truthy(product_name) THEN None
       ELSE Some(ProductDict(product_name, ExtractBySelectors(soup.descs, 2),
                             extract_specifications(soup), images, url))

\* list(set(images))[:5]
ImageLists(soup) == {Take(o, 5) : o \in Orders(soup.images)}

\* extract_product_data(soup, url) of the Scrapy spider; images is
\* list(set(images))
scrapy_extract_product_data(soup, url, images) ==
    Some(ProductDict(ExtractBySelectors(soup.names, 0), ExtractBySelectors(soup.descs, 0),
                     scrapy_extract_specifications(soup), images, url))

---------------------------------------------------------------------------
(* Result envelopes                                                        *)

\* A faulty success envelope that counts the distinct names instead of the
\* records: the count property must fail for it.
SuccessEnvelopeCountingNames(company, products) ==
    [success |-> TRUE, supplierData |-> company, productsData |-> products,
     totalProducts |-> Cardinality({Get(products[i], "productName") :
                                       i \in 1..Len(products)})]

SuccessEnvelope(company, products) ==
    [success |-> TRUE, supplierData |-> company, productsData |-> products,
     totalProducts |-> Len(products)]

\* A faulty failure envelope that still carries data fields: the binary
\* envelope property must fail for it.
FailureEnvelopeWithData(message) ==
    [success |-> FALSE, error |-> message, productsData |-> <<>>, totalProducts |-> 0]

FailureEnvelope(message) == [success |-> FALSE, error |-> message]

Request(url, kind) == [url |-> url, kind |-> kind]

---------------------------------------------------------------------------
(* SimpleWebCrawler: the page handlers.  fetched is None when              *)
(* session.get or raise_for_status raises, else the parsed page.  The      *)
(* result says what the handler left behind, whether it went through its   *)
(* except branch (raised) and whether an exception left it (propagated).   *)

crawl_company_page(data, fetched) ==
    IF fetched = None THEN [data |-> data, raised |-> TRUE, propagated |-> FALSE]
    ELSE LET r == CompanyPageBody(data, Val(fetched))
         IN [data |-> r.data, raised |-> r.raised, propagated |-> FALSE]

\* A faulty product-page handler without its try/except: a failed fetch
\* leaves the handler.  The page-failure property must fail for it.
crawl_product_page_unguarded(products, visited, url, fetched, images) ==
    IF fetched = None
    THEN [products |-> products, visited |-> visited \cup {url},
          raised |-> TRUE, propagated |-> TRUE]
    ELSE LET product_data == extract_product_data(Val(fetched), url, images)
         IN [products |-> IF product_data # None /\ Truthy(Val(product_data).productName)
                          THEN Append(products, Val(product_data)) ELSE products,
             visited |-> visited \cup {url},
             raised |-> FALSE, propagated |-> FALSE]

crawl_product_page(products, visited, url, fetched, images) ==
    IF fetched = None
    THEN [products |-> products, visited |-> visited \cup {url},
          raised |-> TRUE, propagated |-> FALSE]
    ELSE LET product_data == extract_product_data(Val(fetched), url, images)
         IN [products |-> IF product_data # None /\ Truthy(Val(product_data).productName)
                          THEN Append(products, Val(product_data)) ELSE products,
             visited |-> visited \cup {url},
             raised |-> FALSE, propagated |-> FALSE]

---------------------------------------------------------------------------
(* SimpleWebCrawler.crawl_supplier_catalog, one action per step            *)

\* session.get(self.start_url), extract_company_profile and
\* find_company_info_links; a failed fetch ends in the outer except
SimpleStart ==
    /\ variant = "simple" /\ pc = "start"
    /\ requests' = Append(requests, Request(start_url, "seed"))
    /\ \/ /\ output' = <<FailureEnvelope(<<"Crawling failed">>)>>
          /\ pc' = "done"
          /\ UNCHANGED << company_data, main_soup, company_links >>
       \/ \E soup \in MainSoups :
            /\ main_soup' = Some([anchors |-> soup.anchors])
            /\ company_data' = extract_company_profile(company_data, soup.text, start_url)
            /\ \E order \in Orders(find_company_info_links(soup)) :
                   company_links' = Take(order, CompanyPageLimit)
            /\ pc' = "company"
            /\ UNCHANGED output
    /\ last_page' = None
    /\ UNCHANGED pdfvars
    /\ UNCHANGED slept
    /\ UNCHANGED << variant, products_data, visited_urls, product_links, failed_pages >>

\* one iteration of "for link in company_links[:3]"
SimpleCompanyPage ==
    /\ variant = "simple" /\ pc = "company" /\ company_links # <<>>
    /\ LET link == Head(company_links)
       IN /\ requests' = Append(requests, Request(link, "company"))
          /\ \E fetched \in CompanyResponses(Val(main_soup)) :
               LET r == crawl_company_page(company_data, fetched)
               IN /\ company_data' = r.data
                  /\ last_page' = fetched
                  /\ failed_pages' = IF r.raised THEN failed_pages \cup {link}
                                     ELSE failed_pages
                  /\ IF r.propagated
                     THEN /\ output' = <<FailureEnvelope(<<"Crawling failed">>)>>
                          /\ pc' = "done"
                          /\ company_links' = company_links
                     ELSE /\ company_links' = Tail(company_links)
                          /\ UNCHANGED << output, pc >>
    /\ UNCHANGED pdfvars
    /\ UNCHANGED slept
    /\ UNCHANGED << variant, products_data, visited_urls, main_soup, product_links >>

\* find_product_links(main_soup) once the company pages are done
SimpleFindProducts ==
    /\ variant = "simple" /\ pc = "company" /\ company_links = <<>>
    /\ \E order \in Orders(find_product_links(Val(main_soup))) :
           product_links' = Take(order, SimpleProductLimit)
    /\ pc' = "products"
    /\ last_page' = None
    /\ UNCHANGED pdfvars
    /\ UNCHANGED slept
    /\ UNCHANGED << variant, company_data, products_data, visited_urls, main_soup,
                    company_links, requests, failed_pages, output >>

\* one iteration of "for link in product_links[:20]", time.sleep(0.5) included
SimpleProductPage ==
    /\ variant = "simple" /\ pc = "products" /\ product_links # <<>>
    /\ LET link == Head(product_links)
       IN IF link \in visited_urls
          THEN /\ product_links' = Tail(product_links)
               /\ UNCHANGED << products_data, visited_urls, requests, failed_pages,
                               output, pc, slept >>
          ELSE /\ requests' = Append(requests, Request(link, "product"))
               /\ \E fetched \in ProductResponses(Val(main_soup)) :
                    \E images \in (IF fetched = None THEN {<<>>}
                                   ELSE ImageLists(Val(fetched))) :
                      LET r == crawl_product_page(products_data, visited_urls, link,
                                                  fetched, images)
                      IN /\ products_data' = r.products
                         /\ visited_urls' = r.visited
                         /\ failed_pages' = IF r.raised THEN failed_pages \cup {link}
                                            ELSE failed_pages
                         /\ IF r.propagated
                            THEN /\ output' = <<FailureEnvelope(<<"Crawling failed">>)>>
                                 /\ pc' = "done"
                                 /\ product_links' = product_links
                                 /\ slept' = slept
                            ELSE /\ product_links' = Tail(product_links)
                                 /\ slept' = slept + 1
                                 /\ UNCHANGED << output, pc >>
    /\ last_page' = None
    /\ UNCHANGED pdfvars
    /\ UNCHANGED << variant, company_data, main_soup, company_links >>

\* the return of the success envelope, printed by main
SimpleReturn ==
    /\ variant = "simple" /\ pc = "products" /\ product_links = <<>>
    /\ output' = <<SuccessEnvelope(company_data, products_data)>>
    /\ pc' = "done"
    /\ last_page' = None
    /\ UNCHANGED pdfvars
    /\ UNCHANGED slept
    /\ UNCHANGED << variant, company_data, products_data, visited_urls, main_soup,
                    company_links, product_links, requests, failed_pages >>

NextSimple ==
    \/ SimpleStart
    \/ SimpleCompanyPage
    \/ SimpleFindProducts
    \/ SimpleProductPage
    \/ SimpleReturn

---------------------------------------------------------------------------
(* bulk_web_crawler.py: SupplierCrawlerSpider                              *)

ScrapySkipPatterns == {"mailto:", "tel:", "#", "javascript:", ".pdf", ".jpg", ".png"}
ScrapyProductIndicators == {"product", "bottle", "container", "jar", "cap", "closure"}

scrapy_is_product_link(href) ==
    IF HrefEmpty(href) THEN FALSE
    ELSE IF \E pattern \in ScrapySkipPatterns : ContainsLower(href, pattern) THEN FALSE
    ELSE \E indicator \in ScrapyProductIndicators : ContainsLower(href, indicator)

\* soup.select over the eight selectors of the spider's find_product_links
ScrapyProductSelected(soup) ==
    {a \in soup.anchors :
        \/ \E kw \in {"product", "bottle", "container", "packaging"} : Contains(a.href, kw)
        \/ a.cls \in {"product-item", "product-card", "product-grid", "catalog-item"}}

\* the set the spider's find_product_links turns into a list: raw hrefs
scrapy_find_product_links(soup) ==
    {a.href : a \in {b \in ScrapyProductSelected(soup) :
                        ~HrefEmpty(b.href) /\ scrapy_is_product_link(b.href)}}

\* urljoin(response.url, link) for a link that is the serialized <a> element:
\* the text has no scheme, so it resolves as a path on the response's host
OuterHtmlUrl(base, a) ==
    Url(base.scheme, base.host,
        <<"<a href=">> \o (IF a.href.scheme = "" THEN <<>> ELSE <<a.href.scheme>>)
            \o a.href.host \o a.href.path \o <<"</a>">>,
        a.href.hash, a.href.frag)

\* What response.css('a[href*="about"], a[href*="contact"],
\* a[href*="company"]::attr(href)').getall() gives for one anchor, already
\* joined with response.url.  ::attr(href) belongs to the third selector of
\* the group only: the first two select the element, which getall()
\* serializes, and the element precedes its attribute in document order.
ScrapyCompanyEntries(base, a) ==
    (IF Contains(a.href, "about") \/ Contains(a.href, "contact")
     THEN <<OuterHtmlUrl(base, a)>> ELSE <<>>)
    \o (IF Contains(a.href, "company") THEN <<urljoin(base, a.href)>> ELSE <<>>)

\* company_links of parse for the anchors in document order
RECURSIVE ScrapyCompanyLinks(_, _)
ScrapyCompanyLinks(base, anchors) ==
    IF anchors = <<>> THEN <<>>
    ELSE ScrapyCompanyEntries(base, anchors[1]) \o ScrapyCompanyLinks(base, Tail(anchors))

\* scrapy.Request raises ValueError ("Missing scheme") for a URL without "://"
RequestRaises(url) == url.scheme \notin {"http:", "https:"}

\* the request fingerprint of the scheduler's duplicate filter drops the fragment
Fingerprint(url) == Url(url.scheme, url.host, url.path, FALSE, <<>>)

\* the requests of reqs the scheduler accepts: the first of each fingerprint
Scheduled(reqs) ==
    LET keep(i) == \A j \in 1..(i - 1) : Fingerprint(reqs[j].url) # Fingerprint(reqs[i].url)
        F[i \in 0..Len(reqs)] ==
            IF i = 0 THEN <<>>
            ELSE IF keep(i) THEN Append(F[i - 1], reqs[i]) ELSE F[i - 1]
    IN F[Len(reqs)]

\* The generator parse(response) after extract_company_profile.  The result
\* is the requests it yields and the set visited_product_urls it leaves; a
\* ValueError of response.follow ends the generator where it is raised.
ScrapyParseYields(soup, anchorOrder, productOrder) ==
    LET base == start_url
        company == Take(ScrapyCompanyLinks(base, anchorOrder), CompanyPageLimit)
        bad(i) == RequestRaises(company[i])
        firstBad == FirstIndex(company, bad)
        companyReqs == [i \in 1..(IF firstBad = 0 THEN Len(company) ELSE firstBad - 1) |->
                           Request(company[i], "company")]
        products == Take(productOrder, ScrapyProductLimit)
        productReqs == [i \in 1..Len(products) |->
                           Request(urljoin(base, products[i]), "product")]
    IN IF firstBad # 0
       THEN [yields |-> companyReqs, visited |-> {}, raised |-> TRUE]
       ELSE [yields |-> companyReqs \o productReqs, visited |-> Range(products),
             raised |-> FALSE]

\* parse_company_page(response): an exception leaves the callback and is
\* logged by the engine
parse_company_page(data, text) == CompanyPageBody(data, text)

\* parse_product_page(response)
parse_product_page(products, soup, url, images) ==
    LET product_data == scrapy_extract_product_data(soup, url, images)
    IN IF product_data # None /\ Truthy(Val(product_data).productName)
       THEN Append(products, Val(product_data)) ELSE products

\* s without its i-th element
RemoveAt(s, i) == SubSeq(s, 1, i - 1) \o SubSeq(s, i + 1, Len(s))

\* The pending requests whose response can be the next to arrive: any of
\* them; of more than MaxShuffled pending requests the arrivals are followed
\* in queue order only.
Arrivals(pending) == IF Len(pending) > MaxShuffled THEN {1} ELSE 1..Len(pending)

---------------------------------------------------------------------------
(* run_crawler and the Scrapy engine, one action per response              *)

\* runner.crawl raises: the spider cannot be created (urlparse(start_url)
\* raises ValueError), and run_crawler prints the failure envelope
ScrapyCrawlError ==
    /\ variant = "scrapy" /\ pc = "start"
    /\ output' = <<FailureEnvelope(<<"ValueError">>)>>
    /\ pc' = "done"
    /\ last_page' = None
    /\ UNCHANGED pdfvars
    /\ UNCHANGED slept
    /\ UNCHANGED << variant, company_data, products_data, visited_urls, main_soup,
                    company_links, product_links, requests, failed_pages >>

\* the download of the start URL fails: the engine logs it, no callback
\* runs and the crawl ends normally (the spider has no errback and no
\* except branch: failed_pages stays empty)
ScrapySeedFails ==
    /\ variant = "scrapy" /\ pc = "start"
    /\ requests' = Append(requests, Request(start_url, "seed"))
    /\ pc' = "crawling"
    /\ last_page' = None
    /\ UNCHANGED pdfvars
    /\ UNCHANGED slept
    /\ UNCHANGED << variant, company_data, products_data, visited_urls, main_soup,
                    company_links, product_links, failed_pages, output >>

\* parse(response) on the start page, run to the end of the generator
ScrapyParse ==
    /\ variant = "scrapy" /\ pc = "start"
    /\ \E soup \in MainSoups :
         \E anchorOrder \in Orders(soup.anchors) :
           \E productOrder \in Orders(scrapy_find_product_links(soup)) :
             LET r == ScrapyParseYields(soup, anchorOrder, productOrder)
                 accepted == Scheduled(r.yields)
                 urls(kind) ==
                     LET ofKind == SelectSeq(accepted, LAMBDA q : q.kind = kind)
                     IN [i \in 1..Len(ofKind) |-> ofKind[i].url]
             IN /\ company_data' = extract_company_profile(company_data, soup.text,
                                                           start_url)
                /\ main_soup' = Some([anchors |-> soup.anchors])
                /\ visited_urls' = r.visited
                /\ company_links' = urls("company")
                /\ product_links' = urls("product")
                /\ requests' = Append(requests, Request(start_url, "seed")) \o accepted
    /\ pc' = "crawling"
    /\ last_page' = None
    /\ UNCHANGED pdfvars
    /\ UNCHANGED slept
    /\ UNCHANGED << variant, products_data, failed_pages, output >>

\* the response (or the download failure) of one pending company request
ScrapyCompanyResponse ==
    /\ variant = "scrapy" /\ pc = "crawling"
    /\ \E i \in Arrivals(company_links) :
         /\ company_links' = RemoveAt(company_links, i)
         /\ \E fetched \in CompanyResponses(Val(main_soup)) :
              /\ last_page' = fetched
              /\ company_data' = IF fetched = None THEN company_data
                                  ELSE parse_company_page(company_data, Val(fetched)).data
    /\ UNCHANGED pdfvars
    /\ UNCHANGED slept
    /\ UNCHANGED << variant, pc, products_data, visited_urls, main_soup, product_links,
                    requests, failed_pages, output >>

\* the response (or the download failure) of one pending product request
ScrapyProductResponse ==
    /\ variant = "scrapy" /\ pc = "crawling"
    /\ \E i \in Arrivals(product_links) :
         /\ product_links' = RemoveAt(product_links, i)
         /\ \E fetched \in ProductResponses(Val(main_soup)) :
              IF fetched = None
              THEN UNCHANGED products_data
              ELSE \E images \in Orders(Val(fetched).images) :
                     products_data' = parse_product_page(products_data, Val(fetched),
                                                         product_links[i], images)
    /\ last_page' = None
    /\ UNCHANGED pdfvars
    /\ UNCHANGED slept
    /\ UNCHANGED << variant, pc, company_data, visited_urls, main_soup, company_links,
                    requests, failed_pages, output >>

\* no request is left: the spider closes, runner.crawl returns and
\* run_crawler prints the success envelope
ScrapyClose ==
    /\ variant = "scrapy" /\ pc = "crawling"
    /\ company_links = <<>> /\ product_links = <<>>
    /\ output' = <<SuccessEnvelope(company_data, products_data)>>
    /\ pc' = "done"
    /\ last_page' = None
    /\ UNCHANGED pdfvars
    /\ UNCHANGED slept
    /\ UNCHANGED << variant, company_data, products_data, visited_urls, main_soup,
                    company_links, product_links, requests, failed_pages >>

NextScrapy ==
    \/ ScrapyCrawlError
    \/ ScrapySeedFails
    \/ ScrapyParse
    \/ ScrapyCompanyResponse
    \/ ScrapyProductResponse
    \/ ScrapyClose

---------------------------------------------------------------------------
(* bulk_pdf_extractor.py: BulkPDFExtractor.  A text is one sequence of     *)
(* tokens in which "\n" ends a line.  A table is a sequence of rows, a row *)
(* a sequence of cells, and the cell <<>> is an empty cell (None or '').   *)
(* The values of a product dict are wrapped (Some) so that dict.get reads  *)
(* None for a missing key.                                                 *)

\* dict.update(u)
Update(d, u) == u @@ d

\* s.split(sep) for a one-token separator
RECURSIVE SplitOn(_, _)
SplitOn(s, sep) ==
    LET isSep(i) == s[i] = sep
        i == FirstIndex(s, isSep)
    IN IF i = 0 THEN <<s>>
       ELSE <<SubSeq(s, 1, i - 1)>> \o SplitOn(SubSeq(s, i + 1, Len(s)), sep)

\* [line.strip() for line in text.split('\n') if line.strip()]
RECURSIVE StripAll(_)
StripAll(lines) ==
    IF lines = <<>> THEN <<>>
    ELSE (IF Strip(lines[1]) # <<>> THEN <<Strip(lines[1])>> ELSE <<>>)
             \o StripAll(Tail(lines))
NonEmptyLines(text) == StripAll(SplitOn(text, "\n"))

\* index right after an optional ":" at i (":?")
SkipColon(s, i) == IF i <= Len(s) /\ s[i] = ":" THEN i + 1 ELSE i

\* the end of the longest run of tokens satisfying P that starts at i
\* (i - 1 when s[i] does not satisfy it)
RECURSIVE RunEnd(_, _, _)
RunEnd(s, i, kind) ==
    IF i <= Len(s) /\ (CASE kind = "value" -> s[i] \notin {",", "\n"}
                         [] kind = "sku" -> IsAlphaTok(s[i]) \/ s[i] \in NumToks \/ s[i] = "-"
                         [] kind = "heading" -> IsAlphaTok(s[i]) \/ IsSpace(s[i])
                         [] kind = "space" -> IsSpace(s[i]))
    THEN RunEnd(s, i + 1, kind) ELSE i - 1

\* \d+ matches the token at index i
NumAt(s, i) == i <= Len(s) /\ s[i] \in NumToks

---------------------------------------------------------------------------
(* Field parsers of the document extractor                                 *)

\* parse_weight(value): a dict
pdf_parse_weight(value) ==
    LET num(i) == IsNum(value, i)
        i == FirstIndex(value, num)
        unit == WeightUnitAfter(value, i)
    IN IF i = 0 THEN EmptyDict
       ELSE [weight |-> Some(NumVal(value[i])),
             weightUnit |-> Some(<<IF unit # "" THEN unit ELSE "g">>)]

\* parse_capacity(value): a dict
pdf_parse_capacity(value) ==
    LET num(i) == IsNum(value, i)
        i == FirstIndex(value, num)
        unit == CapacityUnitAfter(value, i)
    IN IF i = 0 THEN EmptyDict
       ELSE [capacity |-> Some(NumVal(value[i])),
             capacityUnit |-> Some(<<IF unit # "" THEN unit ELSE "ml">>)]

\* extract_percentage(text): (\d+)\s*%
pdf_extract_percentage(text) ==
    LET pct(i) == /\ IsNum(text, i)
                  /\ SkipSpace(text, i + 1) <= Len(text)
                  /\ text[SkipSpace(text, i + 1)] = "%"
        i == FirstIndex(text, pct)
    IN IF i = 0 THEN None ELSE Some(NumVal(text[i]))

---------------------------------------------------------------------------
(* Table interpreter                                                       *)

AnyKeyword(header, keywords) == \E keyword \in keywords : StrHas(header, keyword)

\* the if/elif chain of extract_product_from_table_row for one cell
TableCell(header, cell, product) ==
    IF AnyKeyword(header, {"name", "product", "item", "title"})
        THEN Put(product, "productName", Some(Strip(cell)))
    ELSE IF AnyKeyword(header, {"description", "desc", "details"})
        THEN Put(product, "description", Some(Strip(cell)))
    ELSE IF StrHas(header, "material")
        THEN Put(product, "materialType", Some(Strip(cell)))
    ELSE IF AnyKeyword(header, {"weight", "mass"})
        THEN Update(product, pdf_parse_weight(cell))
    ELSE IF AnyKeyword(header, {"capacity", "volume", "size"})
        THEN Update(product, pdf_parse_capacity(cell))
    ELSE IF AnyKeyword(header, {"color", "colour"})
        THEN Put(product, "color", Some(Strip(cell)))
    ELSE IF AnyKeyword(header, {"sku", "code", "ref"})
        THEN Put(product, "sku", Some(Strip(cell)))
    ELSE IF AnyKeyword(header, {"recycle", "recycled"})
        THEN LET recycled == pdf_extract_percentage(cell)
             IN IF recycled # None /\ Val(recycled) # 0
                THEN Put(product, "recycledContent", recycled) ELSE product
    ELSE product

\* the loop "for i, cell in enumerate(row)" from cell i on
RECURSIVE TableRowFrom(_, _, _, _)
TableRowFrom(headers, row, i, product) ==
    IF i > Len(row) THEN product
    ELSE TableRowFrom(headers, row, i + 1,
                      IF i <= Len(headers) /\ row[i] # <<>>
                      THEN TableCell(Lower(headers[i]), row[i], product)
                      ELSE product)

\* A faulty row extractor that returns the record as soon as a name field
\* was written, blank or not: the record rule of the tables must fail for it.
extract_product_from_table_row_blank_name(headers, row) ==
    IF row = <<>> \/ headers = <<>> THEN None
    ELSE LET product == TableRowFrom(headers, row, 1, EmptyDict)
         IN IF "productName" \in DOMAIN product THEN Some(product) ELSE None

\* extract_product_from_table_row(headers, row): None without a name
extract_product_from_table_row(headers, row) ==
    IF row = <<>> \/ headers = <<>> THEN None
    ELSE LET product == TableRowFrom(headers, row, 1, EmptyDict)
         IN IF Truthy(Get(product, "productName")) THEN Some(product) ELSE None

\* row and any(cell for cell in row if cell)
RowNonEmpty(row) == \E i \in 1..Len(row) : row[i] # <<>>

\* the products process_product_table(table) appends, in row order
RECURSIVE TableProducts(_, _)
TableProducts(headers, data_rows) ==
    IF data_rows = <<>> THEN <<>>
    ELSE LET product == extract_product_from_table_row(headers, data_rows[1])
         IN (IF product # None /\ Truthy(Get(Val(product), "productName"))
             THEN <<Val(product)>> ELSE <<>>)
                \o TableProducts(headers, Tail(data_rows))

\* process_product_table(table): the new self.products_data
process_product_table(products, table) ==
    IF Len(table) < 2 THEN products
    ELSE LET rows == SelectSeq(table, RowNonEmpty)
         IN IF rows = <<>> THEN products
            ELSE products \o TableProducts([i \in 1..Len(rows[1]) |-> Lower(rows[1][i])],
                                           Tail(rows))

\* the loop "for table in tables" of extract_product_listings
RECURSIVE ProcessTables(_, _)
ProcessTables(products, tables) ==
    IF tables = <<>> THEN products
    ELSE ProcessTables(process_product_table(products, tables[1]), Tail(tables))

---------------------------------------------------------------------------
(* The documents the document extractor is run on: page texts as pdfplumber *)
(* returns them and the tables of each page                                *)

JarSheetText ==
    <<"Sheet", "\n", "Glass", " ", "Jar", " ", "250", "ml", "\n",
      "Material", ":", " ", "Glass", "\n", "Capacity", ":", " ", "250",
      " ", "ml", "\n", "<prose 60>">>

PriceListText ==
    <<"Acme", " ", "Packaging", " ", "Ltd", "\n", "1", ".", " ", "PET",
      " ", "Bottle", "\n", "Material", ":", " ", "PET", "\n", "Capacity",
      ":", " ", "500", " ", "ml", "\n", "<prose 60>", "\n", "2", ".", " ",
      "GLASS", " ", "JAR", " ", "250", "ML", "\n", "Weight", ":", " ",
      "30", " ", "g", "\n", "Recycled", " ", "content", ":", " ", "30",
      "%", "\n", "<prose 60>">>

CoverText ==
    <<"ACME", " ", "PACKAGING", "\n", "Acme", " ", "Packaging", " ", "Ltd",
      "\n", "Email", ":", " ", "info@acme.com", "\n", "Phone", ":", " ",
      "555-123-4567", "\n", "Address", ":", " ",
      "1 Mill Lane, Leeds LS1 4AP", "\n", "\n", "About", " ", "us", ":",
      " ", "<prose 60>", ".">>

NameMaterialWeight ==
    <<<<<<"Name">>, <<"Material">>, <<"Weight">>>>,
      <<<<"Glass", " ", "Jar", " ", "250", "ml">>, <<"Glass">>, <<"180", " ", "g">>>>>>

ProductRecycled ==
    <<<<<<"Product">>, <<"Material">>, <<"Weight">>, <<"Recycled", " ", "%">>>>,
      <<<<"GLASS", " ", "JAR", " ", "250", "ML">>, <<"PET">>, <<"30">>, <<"30", "%">>>>,
      <<<<>>, <<"Glass">>, <<"180", " ", "g">>, <<"0", "%">>>>,
      <<<<"PET", " ", "Bottle">>, <<"PET">>, <<"30", " ", "g">>, <<"0", "%">>>>,
      <<<<"Cap">>, <<"PET">>, <<"2", " ", "g">>, <<"150", "%">>>>>>

NoNameColumn ==
    <<<<<<"Material">>, <<"Weight">>>>,
      <<<<"Glass">>, <<"180", " ", "g">>>>>>

ItemSize ==
    <<<<<<"Item">>, <<"Size">>>>,
      <<<<" ">>, <<"500", " ", "ml">>>>,
      <<<<>>, <<>>>>,
      <<<<"Cap">>, <<"30">>>>,
      <<<<"Jar", " ", "Lid">>, <<"30", " ", "Large">>>>>>

TwoNameColumns ==
    <<<<<<"Product">>, <<"Item", " ", "code">>, <<"Height">>>>,
      <<<<"PET", " ", "Bottle">>, <<" ">>, <<"100">>>>,
      <<<<"Cap">>, <<"A", "-", "1">>, <<"100">>>>>>

JarSheetPage == [text |-> Some(JarSheetText), tables |-> <<NameMaterialWeight>>]

PriceListPage == [text |-> Some(PriceListText), tables |-> <<ProductRecycled>>]

ScannedPage == [text |-> None, tables |-> <<NoNameColumn, NameMaterialWeight, ItemSize, TwoNameColumns>>]

CoverPage == [text |-> Some(CoverText), tables |-> <<>>]

PagePool == {JarSheetPage, PriceListPage, ScannedPage, CoverPage}

\* the documents of at most MaxPages pages
Pdfs == UNION {[1..n -> PagePool] : n \in 0..MaxPages}

---------------------------------------------------------------------------
(* Text segmenter and text-section interpreter                             *)

\* The five delimiters of split_into_product_sections, matched with
\* IGNORECASE at the "\n" at index i: the index of the last token of the
\* match, 0 when the delimiter does not match there.  The token "<bullet>"
\* is one character of the class of the third delimiter.
DelimiterEnd(s, i, delimiter) ==
    LET k == SkipSpace(s, i + 1)
    IN IF k > Len(s) THEN 0
       ELSE CASE delimiter = 1 ->       \* \n\s*[A-Z][A-Z\s]+\n
                 IF ~IsAlphaTok(s[k]) THEN 0
                 ELSE LET e == RunEnd(s, k, "heading")
                          nl == {f \in (k + 1)..e : s[f] = "\n" /\ CharLen(SubSeq(s, k, f - 1)) >= 2}
                      IN IF nl = {} THEN 0 ELSE CHOOSE f \in nl : \A g \in nl : g <= f
              [] delimiter = 2 ->       \* \n\s*\d+\.\s+
                 IF /\ s[k] \in NumToks
                    /\ k + 2 <= Len(s)
                    /\ s[k + 1] = "."
                    /\ IsSpace(s[k + 2])
                 THEN RunEnd(s, k + 2, "space") ELSE 0
              [] delimiter = 3 ->       \* \n\s*[bullet]\s+
                 IF /\ s[k] = "<bullet>"
                    /\ k + 1 <= Len(s)
                    /\ IsSpace(s[k + 1])
                 THEN RunEnd(s, k + 1, "space") ELSE 0
              [] OTHER ->               \* \n\s*Product\s+\d+ and \n\s*Item\s+\d+
                 IF /\ LowerTok(s[k]) = (IF delimiter = 4 THEN "product" ELSE "item")
                    /\ k + 1 <= Len(s)
                    /\ IsSpace(s[k + 1])
                    /\ NumAt(s, SkipSpace(s, k + 1))
                 THEN SkipSpace(s, k + 1) ELSE 0

\* re.split(delimiter, section): the pieces of the text from start on
RECURSIVE SplitFrom(_, _, _)
SplitFrom(s, start, delimiter) ==
    LET matches(i) == i >= start /\ s[i] = "\n" /\ DelimiterEnd(s, i, delimiter) # 0
        i == FirstIndex(s, matches)
    IN IF i = 0 THEN <<SubSeq(s, start, Len(s))>>
       ELSE <<SubSeq(s, start, i - 1)>>
                \o SplitFrom(s, DelimiterEnd(s, i, delimiter) + 1, delimiter)

\* new_sections for one delimiter
RECURSIVE SplitSections(_, _)
SplitSections(sections, delimiter) ==
    IF sections = <<>> THEN <<>>
    ELSE SplitFrom(sections[1], 1, delimiter) \o SplitSections(Tail(sections), delimiter)

\* [s.strip() for s in sections if len(s.strip()) > 50]
RECURSIVE LongSections(_)
LongSections(sections) ==
    IF sections = <<>> THEN <<>>
    ELSE (IF CharLen(Strip(sections[1])) > 50 THEN <<Strip(sections[1])>> ELSE <<>>)
            \o LongSections(Tail(sections))

\* A faulty cascade that applies the delimiters in the reverse order: the
\* order of the text segmenter must fail for it.
RECURSIVE SplitByDelimitersReversed(_, _)
SplitByDelimitersReversed(sections, delimiter) ==
    IF delimiter > 5 THEN sections
    ELSE SplitByDelimitersReversed(SplitSections(sections, 6 - delimiter), delimiter + 1)

\* the loop "for delimiter in delimiters" from the given delimiter on
RECURSIVE SplitByDelimiters(_, _)
SplitByDelimiters(sections, delimiter) ==
    IF delimiter > 5 THEN sections
    ELSE SplitByDelimiters(SplitSections(sections, delimiter), delimiter + 1)

\* split_into_product_sections(text)
split_into_product_sections(text) == LongSections(SplitByDelimiters(<<text>>, 1))

\* is_likely_product_name(line)
is_likely_product_name(line) ==
    LET lower == Lower(line)
        page(i) == /\ "page" \in Subs(lower[i])
                   /\ i + 1 <= Len(line)
                   /\ IsSpace(line[i + 1])
                   /\ NumAt(line, SkipSpace(line, i + 1))
    IN IF CharLen(line) < 3 \/ CharLen(line) > 100 THEN FALSE
       ELSE IF \/ FirstIndex(line, page) # 0
               \/ AnyKeyword(lower, {"catalog", "specification", "description", "feature",
                                      "benefit", "contact", "phone", "email", "address",
                                      "www.", "http", ".com"})
       THEN FALSE
       ELSE AnyKeyword(lower, {"bottle", "jar", "container", "cap", "closure", "tube",
                               "pump", "dispenser", "packaging", "ml", "oz", "gram"})

\* A faulty name choice that looks at the first line only: the rule of the
\* first three lines must fail for it.
FirstProductNameOfFirstLine(lines) ==
    IF lines # <<>> /\ is_likely_product_name(lines[1]) THEN Some(lines[1]) ELSE None

\* the first of lines[:3] that is_likely_product_name accepts
FirstProductName(lines) ==
    LET likely(i) == i <= 3 /\ is_likely_product_name(lines[i])
        i == FirstIndex(lines, likely)
    IN IF i = 0 THEN None ELSE Some(lines[i])

\* label:?\s*([^,\n]+) -- the stripped group of the leftmost match, else None
LabelledValue(text, labels) ==
    LET from(i) == SkipSpace(text, SkipColon(text, i + 1))
        match(i) == LowerTok(text[i]) \in labels /\ RunEnd(text, from(i), "value") >= from(i)
        i == FirstIndex(text, match)
    IN IF i = 0 THEN None
       ELSE Some(Strip(SubSeq(text, from(i), RunEnd(text, from(i), "value"))))

\* label:?\s*(\d+(?:\.\d+)?)\s*(unit) -- <<number, unit>> of the leftmost match
LabelledQuantity(text, labels, which) ==
    LET from(i) == SkipSpace(text, SkipColon(text, i + 1))
        unit(i) == IF which = "weight" THEN WeightUnitAfter(text, from(i))
                   ELSE CapacityUnitAfter(text, from(i))
        match(i) == LowerTok(text[i]) \in labels /\ NumAt(text, from(i)) /\ unit(i) # ""
        i == FirstIndex(text, match)
    IN IF i = 0 THEN None ELSE Some(<<NumVal(text[from(i)]), unit(i)>>)

\* (?:sku|code|ref|item):?\s*([A-Z0-9-]+)
LabelledSku(text) ==
    LET from(i) == SkipSpace(text, SkipColon(text, i + 1))
        match(i) == /\ LowerTok(text[i]) \in {"sku", "code", "ref", "item"}
                    /\ RunEnd(text, from(i), "sku") >= from(i)
        i == FirstIndex(text, match)
    IN IF i = 0 THEN None ELSE Some(SubSeq(text, from(i), RunEnd(text, from(i), "sku")))

\* recycled?\s*content:?\s*(\d+)\s*%
LabelledRecycled(text) ==
    LET word(i) == SkipSpace(text, i + 1)
        from(i) == SkipSpace(text, SkipColon(text, word(i) + 1))
        match(i) == /\ LowerTok(text[i]) \in {"recycle", "recycled"}
                    /\ word(i) <= Len(text)
                    /\ LowerTok(text[word(i)]) = "content"
                    /\ NumAt(text, from(i))
                    /\ SkipSpace(text, from(i) + 1) <= Len(text)
                    /\ text[SkipSpace(text, from(i) + 1)] = "%"
        i == FirstIndex(text, match)
    IN IF i = 0 THEN None ELSE Some(NumVal(text[from(i)]))

\* specs[key] = value when the pattern matched
Matched(key, value) == IF value = None THEN EmptyDict ELSE Put(EmptyDict, key, value)

\* specs[key] = number and specs[unitKey] = unit when the pattern matched
MatchedQuantity(key, unitKey, quantity) ==
    IF quantity = None THEN EmptyDict
    ELSE Put(Put(EmptyDict, key, Some(Val(quantity)[1])), unitKey, Some(<<Val(quantity)[2]>>))

\* extract_specs_from_text(text) of the document extractor: a dict
pdf_extract_specs_from_text(text) ==
    Update(Update(Update(Update(Update(
        Matched("materialType", LabelledValue(text, {"material"})),
        MatchedQuantity("weight", "weightUnit",
                        LabelledQuantity(text, {"weight"}, "weight"))),
        MatchedQuantity("capacity", "capacityUnit",
                        LabelledQuantity(text, {"capacity", "volume", "size"}, "capacity"))),
        Matched("color", LabelledValue(text, {"color", "colour"}))),
        Matched("sku", LabelledSku(text))),
        Matched("recycledContent", LabelledRecycled(text)))

\* the end of the match of \n\s*\n at the "\n" at index i, 0 when none
BlankLineEnd(s, i) ==
    LET nl == {f \in (i + 1)..RunEnd(s, i + 1, "space") : s[f] = "\n"}
    IN IF s[i] # "\n" \/ nl = {} THEN 0 ELSE CHOOSE f \in nl : \A g \in nl : g <= f

\* re.split(r'\n\s*\n', text): the pieces of the text from start on
RECURSIVE Paragraphs(_, _)
Paragraphs(s, start) ==
    LET matches(i) == i >= start /\ BlankLineEnd(s, i) # 0
        i == FirstIndex(s, matches)
    IN IF i = 0 THEN <<SubSeq(s, start, Len(s))>>
       ELSE <<SubSeq(s, start, i - 1)>> \o Paragraphs(s, BlankLineEnd(s, i) + 1)

\* the number of spec_indicators ('weight:', ...) in paragraph.lower()
SpecIndicators(paragraph) ==
    Cardinality({label \in {"weight", "material", "capacity", "size", "sku"} :
        \E i \in 1..(Len(paragraph) - 1) :
            LowerTok(paragraph[i]) = label /\ paragraph[i + 1] = ":"})

\* extract_description_from_text(text)
extract_description_from_text(text) ==
    LET paragraphs == Paragraphs(text, 1)
        descriptive(i) == /\ CharLen(Strip(paragraphs[i])) >= 50
                          /\ SpecIndicators(Strip(paragraphs[i])) <= 2
        i == FirstIndex(paragraphs, descriptive)
    IN IF i = 0 THEN None ELSE Some(Strip(paragraphs[i]))

\* product of extract_product_from_text_section, given what the three
\* extractions returned; None without a name
TextProduct(name, specs, description) ==
    IF ~Truthy(Get(Update(Matched("productName", name), specs), "productName")) THEN None
    ELSE Some(Update(Update(Matched("productName", name), specs),
                     IF Truthy(description) THEN Matched("description", description)
                     ELSE EmptyDict))

\* extract_product_from_text_section(text)
extract_product_from_text_section(text) ==
    TextProduct(FirstProductName(NonEmptyLines(text)),
                pdf_extract_specs_from_text(text),
                extract_description_from_text(text))

\* product.get('productName', '').lower()
NameKey(product) == IF Get(product, "productName") = None THEN <<>>
                    ELSE Lower(Val(Get(product, "productName")))

\* the body of the loop of extract_products_from_text for one section
AddTextProduct(products, product) ==
    IF /\ product # None
       /\ Truthy(Get(Val(product), "productName"))
       /\ NameKey(Val(product)) \notin {NameKey(products[i]) : i \in 1..Len(products)}
    THEN Append(products, Val(product)) ELSE products

\* the loop of extract_products_from_text over the sections
RECURSIVE AddTextProducts(_, _)
AddTextProducts(products, sections) ==
    IF sections = <<>> THEN products
    ELSE AddTextProducts(
             AddTextProduct(products, extract_product_from_text_section(sections[1])),
             Tail(sections))

\* <<v>> of an optional value, <<>> of None
Present(optional) == IF optional = None THEN <<>> ELSE <<Val(optional)>>

\* every named product the sections give, kept or not
RECURSIVE TextCandidates(_)
TextCandidates(sections) ==
    IF sections = <<>> THEN <<>>
    ELSE Present(extract_product_from_text_section(sections[1]))
            \o TextCandidates(Tail(sections))

\* extract_products_from_text(text): the new self.products_data
extract_products_from_text(products, text) ==
    AddTextProducts(products, split_into_product_sections(text))

\* A faulty duplicate removal that keeps the last record of each name
\* instead of the first: the first-candidate property must fail for it.
RECURSIVE UniqueProductsKeepingLast(_, _)
UniqueProductsKeepingLast(products, seen_names) ==
    IF products = <<>> THEN <<>>
    ELSE LET name == NameKey(products[1])
             later == \E i \in 2..Len(products) : NameKey(products[i]) = name
         IN IF name # <<>> /\ ~later
            THEN <<products[1]>> \o UniqueProductsKeepingLast(Tail(products), seen_names)
            ELSE UniqueProductsKeepingLast(Tail(products), seen_names)

\* the duplicate removal at the end of extract_product_listings
RECURSIVE UniqueProducts(_, _)
UniqueProducts(products, seen_names) ==
    IF products = <<>> THEN <<>>
    ELSE LET name == NameKey(products[1])
         IN IF name # <<>> /\ name \notin seen_names
            THEN <<products[1]>> \o UniqueProducts(Tail(products), seen_names \cup {name})
            ELSE UniqueProducts(Tail(products), seen_names)

---------------------------------------------------------------------------
(* Company profile of the document extractor.  The contact patterns are    *)
(* answered per token (AddressMatch .. WebsiteMatch): in the texts of the  *)
(* model a contact value is one token and no pattern matches across two.   *)

\* line.isupper()
IsUpper(line) == /\ \E i \in 1..Len(line) : HasUpperCase(line[i])
                 /\ \A i \in 1..Len(line) : ~HasLowerCase(line[i])

\* line.title()
Title(line) == [i \in 1..Len(line) |-> TitleTok(line[i])]

\* A faulty name choice whose fallback takes lines of 5 characters too:
\* the fallback rule of the company name must fail for it.
pdf_extract_company_name_from_five(text) ==
    LET lines == NonEmptyLines(text)
        sized(i) == CharLen(lines[i]) >= 3 /\ CharLen(lines[i]) <= 80
        indicated(i) == AnyKeyword(Lower(lines[i]), {"ltd", "inc", "corp", "company", "limited"})
        capitals(i) == IsUpper(lines[i]) /\ CharLen(lines[i]) > 5
        named(i) == i <= 10 /\ sized(i) /\ (indicated(i) \/ capitals(i))
        substantial(i) == i <= 5 /\ CharLen(lines[i]) >= 5 /\ CharLen(lines[i]) < 50
        i == FirstIndex(lines, named)
        j == FirstIndex(lines, substantial)
    IN IF i # 0 THEN (IF indicated(i) THEN lines[i] ELSE Title(lines[i]))
       ELSE IF j # 0 THEN lines[j]
       ELSE <<"Unknown", " ", "Company">>

\* extract_company_name(text)
pdf_extract_company_name(text) ==
    LET lines == NonEmptyLines(text)
        sized(i) == CharLen(lines[i]) >= 3 /\ CharLen(lines[i]) <= 80
        indicated(i) == AnyKeyword(Lower(lines[i]), {"ltd", "inc", "corp", "company", "limited"})
        capitals(i) == IsUpper(lines[i]) /\ CharLen(lines[i]) > 5
        named(i) == i <= 10 /\ sized(i) /\ (indicated(i) \/ capitals(i))
        substantial(i) == i <= 5 /\ CharLen(lines[i]) > 5 /\ CharLen(lines[i]) < 50
        i == FirstIndex(lines, named)
        j == FirstIndex(lines, substantial)
    IN IF i # 0 THEN (IF indicated(i) THEN lines[i] ELSE Title(lines[i]))
       ELSE IF j # 0 THEN lines[j]
       ELSE <<"Unknown", " ", "Company">>

\* re.search(pattern, text) for a pattern answered per token: the match of
\* the leftmost token that has one, else None
SearchTokens(text, Match(_)) ==
    LET has(i) == Match(text[i]) # ""
        i == FirstIndex(text, has)
    IN IF i = 0 THEN None ELSE Some(<<Match(text[i])>>)

\* the first of two results that is one
OrElse(first, second) == IF first # None THEN first ELSE second

\* the match when len(address) > 20, else no result
SubstantialAddress(match) ==
    IF match # None /\ CharLen(Strip(Val(match))) > 20 THEN match ELSE None

\* extract_address(text)
pdf_extract_address(text) ==
    LET zip(t) == AddressMatch(1, t)
        uk(t) == AddressMatch(2, t)
        other(t) == AddressMatch(3, t)
    IN OrElse(SubstantialAddress(SearchTokens(text, zip)),
       OrElse(SubstantialAddress(SearchTokens(text, uk)),
              SubstantialAddress(SearchTokens(text, other))))

\* extract_email(text)
pdf_extract_email(text) == SearchTokens(text, EmailMatch)

\* extract_phone(text)
pdf_extract_phone(text) ==
    LET international(t) == PhoneMatch(1, t)
        national(t) == PhoneMatch(2, t)
    IN OrElse(SearchTokens(text, international), SearchTokens(text, national))

\* url of extract_website for a match
WebsiteUrl(match) ==
    IF match = None \/ "http" \in Subs(Val(match)[1]) THEN match
    ELSE Some(<<"https://">> \o Val(match))

\* extract_website(text)
pdf_extract_website(text) ==
    LET http(t) == WebsiteMatch(1, t)
        www(t) == WebsiteMatch(2, t)
        bare(t) == WebsiteMatch(3, t)
    IN WebsiteUrl(OrElse(SearchTokens(text, http),
                  OrElse(SearchTokens(text, www), SearchTokens(text, bare))))

\* the index of the last word when words[w..] start at index i, split by
\* \s+, else 0
RECURSIVE WordsEnd(_, _, _, _)
WordsEnd(text, words, i, w) ==
    IF i > Len(text) \/ LowerTok(text[i]) # words[w] THEN 0
    ELSE IF w = Len(words) THEN i
    ELSE IF i + 1 <= Len(text) /\ IsSpace(text[i + 1])
         THEN WordsEnd(text, words, SkipSpace(text, i + 1), w + 1)
    ELSE 0

\* [:\s]* from index i on
RECURSIVE SkipColonSpace(_, _)
SkipColonSpace(text, i) ==
    IF i <= Len(text) /\ (text[i] = ":" \/ IsSpace(text[i]))
    THEN SkipColonSpace(text, i + 1) ELSE i

\* words[:\s]*([^.]*\.) -- the stripped group of the leftmost match
AboutSentence(text, words) ==
    LET stop(i) == {f \in i..Len(text) : text[f] = "."}
        match(i) == /\ WordsEnd(text, words, i, 1) # 0
                    /\ stop(WordsEnd(text, words, i, 1) + 1) # {}
        i == FirstIndex(text, match)
        from == SkipColonSpace(text, WordsEnd(text, words, i, 1) + 1)
        to == CHOOSE f \in stop(from) : \A g \in stop(from) : f <= g
    IN IF i = 0 THEN None ELSE Some(Strip(SubSeq(text, from, to)))

\* desc when len(desc) > 50, else no result
Substantial(desc) == IF desc # None /\ CharLen(Val(desc)) > 50 THEN desc ELSE None

\* the fallback of extract_company_description: the first fitting paragraph
FittingParagraph(paragraphs) ==
    LET fits(i) == /\ CharLen(Strip(paragraphs[i])) > 100
                   /\ CharLen(Strip(paragraphs[i])) < 500
                   /\ ~AnyKeyword(Lower(paragraphs[i]),
                                  {"phone", "email", "address", "weight", "material"})
        i == FirstIndex(paragraphs, fits)
    IN IF i = 0 THEN None ELSE Some(Strip(paragraphs[i]))

\* extract_company_description(text)
pdf_extract_company_description(text) ==
    OrElse(Substantial(AboutSentence(text, <<"about", "us">>)),
    OrElse(Substantial(AboutSentence(text, <<"company", "overview">>)),
    OrElse(Substantial(AboutSentence(text, <<"who", "we", "are">>)),
           FittingParagraph(Paragraphs(text, 1)))))

\* the indices of pages_to_check for a document of n pages
PagesToCheck(n) ==
    LET first == [i \in 1..(IF n < 3 THEN n ELSE 3) |-> i]
        last == IF n > 3 THEN SelectSeq(<<n - 1, n>>, LAMBDA i : i > 3) ELSE <<>>
    IN first \o last

\* page.extract_text() or ""
TextOr(page) == IF page.text = None THEN <<>> ELSE Val(page.text)

\* company_text of extract_company_profile
RECURSIVE CompanyText(_, _)
CompanyText(pages, indices) ==
    IF indices = <<>> THEN <<>>
    ELSE TextOr(pages[indices[1]]) \o CompanyText(pages, Tail(indices))

\* extract_company_profile(pdf): the new self.company_data
pdf_extract_company_profile(pages) ==
    LET company_text == CompanyText(pages, PagesToCheck(Len(pages)))
    IN [companyName |-> Some(pdf_extract_company_name(company_text)),
        address |-> pdf_extract_address(company_text),
        email |-> pdf_extract_email(company_text),
        phone |-> pdf_extract_phone(company_text),
        website |-> pdf_extract_website(company_text),
        supplierType |-> Some(<<"Packaging">>),
        description |-> pdf_extract_company_description(company_text)]

---------------------------------------------------------------------------
(* BulkPDFExtractor.extract_all_data, one action per step.  Any exception  *)
(* inside the with block ends in the except branch of extract_all_data.    *)

\* pdfplumber.open raises, or extract_company_profile does
PdfOpenFails ==
    /\ variant = "pdf" /\ pc = "start"
    /\ output' = <<FailureEnvelope(<<"PDF extraction failed">>)>>
    /\ pc' = "done"
    /\ UNCHANGED << variant, company_data, products_data >>
    /\ UNCHANGED webvars
    /\ UNCHANGED pdfvars

\* pdfplumber.open(self.pdf_path) and extract_company_profile(pdf)
PdfOpen ==
    /\ variant = "pdf" /\ pc = "start"
    /\ \E doc \in Pdfs :
         /\ pdf' = Some(doc)
         /\ company_data' = pdf_extract_company_profile(doc)
    /\ pc' = "pages"
    /\ UNCHANGED << variant, products_data, output, page_no, all_text, candidates >>
    /\ UNCHANGED webvars

\* one iteration of "for page in pdf.pages" of extract_product_listings
PdfPage ==
    /\ variant = "pdf" /\ pc = "pages" /\ page_no < Len(Val(pdf))
    /\ LET page == Val(pdf)[page_no + 1]
       IN /\ all_text' = all_text \o TextOr(page) \o <<"\n">>
          /\ products_data' = ProcessTables(products_data, page.tables)
          /\ candidates' = candidates \o ProcessTables(<<>>, page.tables)
    /\ page_no' = page_no + 1
    /\ UNCHANGED << variant, pc, company_data, output, pdf >>
    /\ UNCHANGED webvars

\* extract_text or extract_tables raises on the page
PdfPageFails ==
    /\ variant = "pdf" /\ pc = "pages" /\ page_no < Len(Val(pdf))
    /\ output' = <<FailureEnvelope(<<"PDF extraction failed">>)>>
    /\ pc' = "done"
    /\ UNCHANGED << variant, company_data, products_data >>
    /\ UNCHANGED webvars
    /\ UNCHANGED pdfvars

\* extract_products_from_text(all_text) after the last page
PdfText ==
    /\ variant = "pdf" /\ pc = "pages" /\ page_no = Len(Val(pdf))
    /\ products_data' = extract_products_from_text(products_data, all_text)
    /\ candidates' = candidates \o TextCandidates(split_into_product_sections(all_text))
    /\ pc' = "unique"
    /\ UNCHANGED << variant, company_data, output, pdf, page_no, all_text >>
    /\ UNCHANGED webvars

\* the duplicate removal of extract_product_listings and the return of
\* extract_all_data
PdfReturn ==
    /\ variant = "pdf" /\ pc = "unique"
    /\ products_data' = UniqueProducts(products_data, {})
    /\ output' = <<SuccessEnvelope(company_data, products_data')>>
    /\ pc' = "done"
    /\ UNCHANGED << variant, company_data >>
    /\ UNCHANGED webvars
    /\ UNCHANGED pdfvars

NextPdf ==
    \/ PdfOpenFails
    \/ PdfOpen
    \/ PdfPage
    \/ PdfPageFails
    \/ PdfText
    \/ PdfReturn

---------------------------------------------------------------------------

Init ==
    /\ variant \in {"simple", "scrapy", "pdf"}
    /\ pc = "start"
    /\ company_data = EmptyDict
    /\ products_data = <<>>
    /\ visited_urls = {}
    /\ main_soup = None
    /\ company_links = <<>>
    /\ product_links = <<>>
    /\ requests = <<>>
    /\ failed_pages = {}
    /\ last_page = None
    /\ slept = 0
    /\ output = <<>>
    /\ pdf = None
    /\ page_no = 0
    /\ all_text = <<>>
    /\ candidates = <<>>

Next == NextSimple \/ NextScrapy \/ NextPdf

Spec == Init /\ [][Next]_vars


---------------------------------------------------------------------------
(* Properties                                                              *)

Web == variant \in {"simple", "scrapy"}

\* the envelope the run printed, when it has printed one
Printed == pc = "done" /\ Len(output) = 1

\* the identity key of a product record: its name, trimmed and lower-cased
IdentityKey(product) ==
    IF Get(product, "productName") = None THEN <<>>
    ELSE Lower(Strip(Val(Get(product, "productName"))))

\* the requests issued after the seed request
Followed == {i \in 1..Len(requests) : requests[i].kind # "seed"}

\* C1: in every success envelope of the three extractors every record of
\* productsData has a non-empty productName and no two records have names
\* that are equal when compared case-insensitively.
C1_ProductNamesUnique ==
    \A e \in 1..Len(output) :
        output[e].success =>
            LET records == output[e].productsData
            IN /\ \A i \in 1..Len(records) : IdentityKey(records[i]) # <<>>
               /\ \A i, j \in 1..Len(records) :
                      i # j => IdentityKey(records[i]) # IdentityKey(records[j])

\* C2: during one crawl of the simple crawler no URL is requested more
\* than once, the seed, the company-info pages and the product pages
\* counted together.
C2_NoUrlRequestedTwice ==
    variant = "simple" =>
        \A i, j \in 1..Len(requests) : i # j => requests[i].url # requests[j].url

\* C3: in both web variants every URL requested after the seed has the
\* start URL's host or a subdomain of it as its host.
C3_RequestsStayOnStartHost ==
    Web => \A i \in Followed :
               \/ netloc(requests[i].url) = netloc(start_url)
               \/ IsSubdomain(netloc(requests[i].url), netloc(start_url))

\* C4: a link that matches the skip denylist (mailto:, tel:, a fragment,
\* javascript:, a non-document extension) is never fetched, be it found as a
\* product link or as a company-info link: no request after the seed is for
\* such a link.
C4_SkippedLinksNeverFetched ==
    Web => \A i \in Followed :
               \A pattern \in {"mailto:", "tel:", "#", "javascript:", ".pdf", ".jpg", ".png"} :
                   ~ContainsLower(requests[i].url, pattern)

\* C5: once email, address or phone of the company profile holds a value,
\* no step of a web crawl changes it, whatever company-info pages are
\* visited and in whatever order their responses arrive.
C5_ContactFieldsKept ==
    [][Web => \A field \in {"email", "address", "phone"} :
                  Truthy(Get(company_data, field)) =>
                      Get(company_data', field) = Get(company_data, field)]_vars

\* a company-info page that offers another email than the one the profile
\* already held has just been handled, and the profile kept its own
C5_OtherEmailOffered ==
    /\ Web
    /\ last_page # None
    /\ Truthy(Val(last_page).email)
    /\ Truthy(Get(company_data, "email"))
    /\ Val(last_page).email # Get(company_data, "email")

\* len of the profile's description, 0 when it has none
DescriptionLength(data) ==
    IF Truthy(Get(data, "description")) THEN CharLen(Val(Get(data, "description"))) ELSE 0

\* C6: after the main page, a step changes the profile description only by
\* replacing it with the candidate of the company-info page it handles, and
\* only when that candidate is strictly longer; so the length never
\* decreases.
C6_DescriptionOnlyLonger ==
    [][(Web /\ pc # "start") =>
          \/ Get(company_data', "description") = Get(company_data, "description")
          \/ /\ last_page' # None
             /\ Get(company_data', "description") = Val(last_page').description
             /\ DescriptionLength(company_data') > DescriptionLength(company_data)]_vars

\* a company-info page whose candidate is as long as the current description
\* but another text has just been handled, and the description stayed
C6_EqualLengthOffered ==
    /\ Web
    /\ last_page # None
    /\ Truthy(Val(last_page).description)
    /\ Truthy(Get(company_data, "description"))
    /\ Val(last_page).description # Get(company_data, "description")
    /\ CharLen(Val(Val(last_page).description)) = DescriptionLength(company_data)

\* the candidates that are the first of their identity key, in order
FirstOfEachKey(records) ==
    LET first(i) == \A j \in 1..(i - 1) : IdentityKey(records[j]) # IdentityKey(records[i])
        F[i \in 0..Len(records)] ==
            IF i = 0 THEN <<>>
            ELSE IF first(i) THEN Append(F[i - 1], records[i]) ELSE F[i - 1]
    IN F[Len(records)]

\* C7: the document extractor's final list is, for each identity key, the
\* first candidate with that key in the order "table rows in page and row
\* order, then text sections", with exactly the fields that candidate had.
C7_FirstCandidateKept ==
    (variant = "pdf" /\ Printed /\ output[1].success) =>
        output[1].productsData = FirstOfEachKey(candidates)

\* a run in which a later candidate has the key of an earlier one and
\* carries a field the earlier one lacks
C7_RicherDuplicate ==
    /\ variant = "pdf" /\ Printed /\ output[1].success
    /\ \E i, j \in 1..Len(candidates) :
          /\ i < j
          /\ IdentityKey(candidates[i]) = IdentityKey(candidates[j])
          /\ DOMAIN candidates[j] \ DOMAIN candidates[i] # {}

\* C8: every envelope is either a success with supplierData, productsData
\* and totalProducts and no error, or a failure with error and none of the
\* data fields.
C8_EnvelopeBinary ==
    \A e \in 1..Len(output) :
        IF output[e].success
        THEN DOMAIN output[e] = {"success", "supplierData", "productsData", "totalProducts"}
        ELSE DOMAIN output[e] = {"success", "error"}

\* a run that failed after it had collected product records
C8_FailureAfterRecords ==
    Printed /\ ~output[1].success /\ products_data # <<>>

\* the run met a fatal failure: the seed page was never parsed, or the
\* document was not opened or not read to its last page
Fatal ==
    \/ Web /\ main_soup = None
    \/ variant = "pdf" /\ (pdf = None \/ page_no < Len(Val(pdf)))

\* C9: when the document cannot be decoded or the seed URL cannot be
\* fetched, the output is {success: false, error} without data fields, in
\* every variant.
C9_FatalFailureReported ==
    (Printed /\ Fatal) =>
        ~output[1].success /\ DOMAIN output[1] = {"success", "error"}

\* C10: in the simple crawler a step in which a page handler fails leaves
\* the crawl where it is (no envelope printed, the same loop), keeps the
\* product records, and goes on to the next link; and a crawl whose seed
\* page was fetched ends with success = true.
C10_PageFailureSkipped ==
    /\ [](variant = "simple" /\ Printed /\ main_soup # None => output[1].success)
    /\ [][(variant = "simple" /\ failed_pages' # failed_pages) =>
             /\ output' = output
             /\ pc' = pc
             /\ products_data' = products_data
             /\ \/ pc = "company" /\ company_links' = Tail(company_links)
                \/ pc = "products" /\ product_links' = Tail(product_links)]_vars

\* a finished crawl with a failed page and a product record
C10_FailedPageAndRecords ==
    /\ variant = "simple" /\ Printed /\ output[1].success
    /\ failed_pages # {}
    /\ output[1].productsData # <<>>

---------------------------------------------------------------------------
\* the number of requests of one kind the crawl has issued
Requested(kind) == Cardinality({i \in 1..Len(requests) : requests[i].kind = kind})

\* the product ceiling of the running variant
ProductLimit == IF variant = "simple" THEN SimpleProductLimit ELSE ScrapyProductLimit

\* C11: in one crawl at most 3 company-info pages and at most the product
\* ceiling of product pages (20 in the simple crawler, 50 in the Scrapy
\* crawler) are requested, whatever number of matching links the main page has.
C11_PageLimits ==
    Web => /\ Requested("company") <= CompanyPageLimit
           /\ Requested("product") <= ProductLimit

\* a finished crawl of a main page with more company links and more product
\* links than the limits, which requested exactly as many pages as the limits
C11_LimitsReached ==
    /\ Web /\ Printed /\ main_soup # None
    /\ Val(main_soup).anchors = Catalogue
    /\ Requested("company") = CompanyPageLimit
    /\ Requested("product") = ProductLimit

---------------------------------------------------------------------------
WeightUnits == {"g", "kg", "gram", "kilogram"}
CapacityUnits == {"ml", "l", "liter", "litre", "oz"}

\* no token of the text is one of the units
NoUnitToken(text, units) == \A i \in 1..Len(text) : LowerTok(text[i]) \notin units

\* a present quantity of the record is a number and its unit is one of units
QuantityWellFormed(record, field, unitField, units) ==
    Get(record, field) # None =>
        /\ Val(Get(record, field)) \in Nat
        /\ Get(record, unitField) \in {Some(<<u>>) : u \in units}

\* the table cells of the opened document that stand under a header:
\* <<header, cell>> as extract_product_from_table_row meets them
CellsUnderHeaders ==
    IF pdf = None THEN {}
    ELSE UNION { UNION { LET rows == SelectSeq(Val(pdf)[p].tables[t], RowNonEmpty)
                         IN UNION { { <<Lower(rows[1][i]), rows[r][i]>> :
                                          i \in {j \in 1..Len(rows[1]) :
                                                    j <= Len(rows[r])} }
                                      : r \in 2..Len(rows) }
                         : t \in 1..Len(Val(pdf)[p].tables) }
                 : p \in 1..Len(Val(pdf)) }

\* the key/value rows of the product pages, as extract_specifications meets them
RowsOfProductPages ==
    UNION { { <<Lower(Strip(soup.rows[r].key)), Strip(soup.rows[r].value)>> :
                r \in 1..Len(soup.rows) } : soup \in ProductSoups }

\* C12: in every product record of every variant a present weight is a
\* number with weightUnit in {g, kg, gram, kilogram} and a present capacity
\* is a number with capacityUnit in {ml, l, liter, litre, oz}; and a parsed
\* text with a number and no unit token gets the default unit, g for a
\* weight and ml for a capacity.
C12_QuantitiesAndDefaultUnits ==
    /\ \A k \in 1..Len(products_data) :
          /\ QuantityWellFormed(products_data[k], "weight", "weightUnit", WeightUnits)
          /\ QuantityWellFormed(products_data[k], "capacity", "capacityUnit", CapacityUnits)
    /\ \A hc \in CellsUnderHeaders :
          LET product == TableCell(hc[1], hc[2], EmptyDict)
          IN /\ ("weight" \in DOMAIN product /\ NoUnitToken(hc[2], WeightUnits))
                    => product["weightUnit"] = Some(<<"g">>)
             /\ ("capacity" \in DOMAIN product /\ NoUnitToken(hc[2], CapacityUnits))
                    => product["capacityUnit"] = Some(<<"ml">>)
    /\ Web => \A kv \in RowsOfProductPages :
          \A specs \in {parse_spec_value(kv[1], kv[2], EmptyDict),
                        scrapy_parse_spec_value(kv[1], kv[2], EmptyDict)} :
             /\ ("weight" \in DOMAIN specs /\ NoUnitToken(kv[2], WeightUnits))
                    => specs["weight_unit"] = Some(<<"g">>)
             /\ ("capacity" \in DOMAIN specs /\ NoUnitToken(kv[2], CapacityUnits))
                    => specs["capacity_unit"] = Some(<<"ml">>)

---------------------------------------------------------------------------
\* the data rows of the tables of the pages read so far, each with the
\* header row of its table: <<headers, row>>
DataRowsRead ==
    IF pdf = None THEN {}
    ELSE UNION { UNION { LET table == Val(pdf)[p].tables[t]
                             rows == SelectSeq(table, RowNonEmpty)
                         IN IF Len(table) < 2 THEN {}
                            ELSE { <<[i \in 1..Len(rows[1]) |-> Lower(rows[1][i])], rows[r]>> :
                                       r \in 2..Len(rows) }
                         : t \in 1..Len(Val(pdf)[p].tables) }
                 : p \in 1..page_no }

\* the cells of the row that are classified as NAME through their header
NameCells(headers, row) ==
    {i \in 1..Len(row) : /\ i <= Len(headers)
                         /\ row[i] # <<>>
                         /\ AnyKeyword(headers[i], {"name", "product", "item", "title"})}

\* the last NAME cell of the row has text that is not blank
NameText(headers, row) ==
    /\ NameCells(headers, row) # {}
    /\ LET last == CHOOSE i \in NameCells(headers, row) :
                       \A j \in NameCells(headers, row) : j <= i
       IN Strip(row[last]) # <<>>

\* C13 as stated: for every grid and every data row of it the table
\* interpreter emits a record for the row if and only if some cell of the
\* row is classified as NAME through its header.
C13_RecordIffNameCell ==
    \A dr \in DataRowsRead :
        extract_product_from_table_row(dr[1], dr[2]) # None <=> NameCells(dr[1], dr[2]) # {}

\* C13, amended: the table interpreter emits a record for a data row if and
\* only if the last cell of the row that is classified as NAME has text that
\* is not blank; the records held after the pages read so far are those of
\* exactly these rows, and the other rows yield nothing.
C13_RecordIffNameText ==
    /\ \A dr \in DataRowsRead :
          extract_product_from_table_row(dr[1], dr[2]) # None <=> NameText(dr[1], dr[2])
    /\ (variant = "pdf" /\ pc = "pages") =>
          Range(products_data) =
              { TableRowFrom(dr[1], dr[2], 1, EmptyDict) :
                    dr \in {d \in DataRowsRead : NameText(d[1], d[2])} }

\* a page has been read whose tables hold a row with a blank NAME cell, a row
\* without a NAME cell and a row with a name, and only the last gave a record
C13_BlankNameRowDropped ==
    /\ variant = "pdf" /\ pc = "pages" /\ page_no > 0
    /\ \E dr \in DataRowsRead : NameCells(dr[1], dr[2]) # {} /\ ~NameText(dr[1], dr[2])
    /\ \E dr \in DataRowsRead : NameCells(dr[1], dr[2]) = {}
    /\ \E dr \in DataRowsRead : NameText(dr[1], dr[2])
    /\ products_data # <<>>

---------------------------------------------------------------------------
\* the grids of the pages read so far, each already interpreted once
GridsRead ==
    IF pdf = None THEN {}
    ELSE UNION { { Val(pdf)[p].tables[t] : t \in 1..Len(Val(pdf)[p].tables) }
                 : p \in 1..page_no }

\* C14: the table interpreter is idempotent on a fixed grid: running
\* process_product_table a second time on a grid that was already interpreted
\* leaves the candidate list of the session as it was after the first run.
C14_SecondRunChangesNothing ==
    (variant = "pdf" /\ pc = "pages") =>
        \A table \in GridsRead : process_product_table(products_data, table) = products_data

---------------------------------------------------------------------------
\* C15: every recycledContent value stored in a product record, by the
\* table path, the text path or the web specification path, lies in the
\* range 0 to 100.
C15_RecycledContentInRange ==
    \A k \in 1..Len(products_data) :
        Get(products_data[k], "recycledContent") # None =>
            Val(Get(products_data[k], "recycledContent")) \in 0..100

---------------------------------------------------------------------------
\* the lines extract_company_name scans: the first 10 non-empty lines of the
\* company text that have 3 to 80 characters
ScannedLines ==
    IF pdf = None THEN <<>>
    ELSE LET lines == NonEmptyLines(CompanyText(Val(pdf), PagesToCheck(Len(Val(pdf)))))
         IN SelectSeq(Take(lines, 10),
                      LAMBDA line : CharLen(line) >= 3 /\ CharLen(line) <= 80)

LegalEntityLine(line) ==
    AnyKeyword(Lower(line), {"ltd", "inc", "corp", "company", "limited"})

AllCapsLine(line) == IsUpper(line) /\ CharLen(line) > 5 /\ ~LegalEntityLine(line)

\* C16: in the company name choice of the document extractor a line with a
\* legal-entity marker is preferred over an all-caps line: whenever the
\* scanned lines contain both, the returned name is the legal-entity line,
\* whichever comes first; the all-caps line, title-cased, is returned only
\* when no legal-entity line exists.
C16_LegalEntityPreferred ==
    (variant = "pdf" /\ pdf # None /\ "companyName" \in DOMAIN company_data) =>
        LET legal == {i \in 1..Len(ScannedLines) : LegalEntityLine(ScannedLines[i])}
            caps == {i \in 1..Len(ScannedLines) : AllCapsLine(ScannedLines[i])}
            name == Val(company_data["companyName"])
        IN /\ legal # {} => name \in {ScannedLines[i] : i \in legal}
           /\ (legal = {} /\ caps # {}) => name \in {Title(ScannedLines[i]) : i \in caps}

---------------------------------------------------------------------------
\* the rule table in its declared order: <<tag, keywords>>
RuleTable ==
    << <<"NAME", {"name", "product", "item", "title"}>>,
       <<"DESCRIPTION", {"description", "desc", "details"}>>,
       <<"MATERIAL", {"material"}>>,
       <<"WEIGHT", {"weight", "mass"}>>,
       <<"CAPACITY", {"capacity", "volume", "size"}>>,
       <<"COLOR", {"color", "colour"}>>,
       <<"SKU", {"sku", "code", "ref"}>>,
       <<"RECYCLED", {"recycle", "recycled"}>>,
       <<"DIMENSION", {"height", "width", "diameter", "dimension"}>> >>

\* the tag of the first rule one of whose keywords is in the label
FirstRule(label) ==
    LET matching == {r \in 1..Len(RuleTable) : AnyKeyword(label, RuleTable[r][2])}
    IN IF matching = {} THEN "unknown"
       ELSE RuleTable[CHOOSE r \in matching : \A q \in matching : r <= q][1]

\* the fields of a record a tag writes
TagFields(tag) ==
    CASE tag = "NAME" -> {"productName"}
      [] tag = "DESCRIPTION" -> {"description"}
      [] tag = "MATERIAL" -> {"materialType"}
      [] tag = "WEIGHT" -> {"weight", "weightUnit"}
      [] tag = "CAPACITY" -> {"capacity", "capacityUnit"}
      [] tag = "COLOR" -> {"color"}
      [] tag = "SKU" -> {"sku"}
      [] tag = "RECYCLED" -> {"recycledContent"}
      [] tag = "DIMENSION" -> {"dimensions"}
      [] OTHER -> {}

\* C17: for every header label the tag applied to a table cell is that of
\* the first rule, in the order NAME, DESCRIPTION, MATERIAL, WEIGHT,
\* CAPACITY, COLOR, SKU, RECYCLED, DIMENSION, one of whose keywords is in the
\* lower-cased label: the cell writes fields of that tag only, a tag whose
\* field takes the cell as it is or that opens the dimensions is written
\* whatever the cell holds, and a label matching no rule writes no field.
C17_FirstRuleWins ==
    \A hc \in CellsUnderHeaders :
        LET written == DOMAIN TableCell(hc[1], hc[2], EmptyDict)
            tag == FirstRule(hc[1])
        IN /\ written \subseteq TagFields(tag)
           /\ tag \notin {"WEIGHT", "CAPACITY", "RECYCLED"} => written = TagFields(tag)

---------------------------------------------------------------------------
\* the lines among the first 3 non-empty lines of the section that have 3
\* to 100 characters, no denylist term and an allow-list keyword
QualifyingLines(section) ==
    LET lines == NonEmptyLines(section)
    IN {i \in 1..Len(lines) : /\ i <= 3
                              /\ CharLen(lines[i]) >= 3 /\ CharLen(lines[i]) <= 100
                              /\ is_likely_product_name(lines[i])}

\* the first qualifying line of a section that has one
FirstQualifying(section) ==
    NonEmptyLines(section)[CHOOSE i \in QualifyingLines(section) :
                               \A j \in QualifyingLines(section) : i <= j]

\* the records the tables of the pages give, appended to products
RECURSIVE TableRecords(_, _)
TableRecords(pages, products) ==
    IF pages = <<>> THEN products
    ELSE TableRecords(Tail(pages), ProcessTables(products, pages[1].tables))

\* C18: for a text section the product name is the first of its first 3
\* non-empty lines that has length 3 to 100, no denylist term and an
\* allow-list keyword; when none of the 3 qualifies the section gives no
\* record, whatever else it holds: after the text step the candidates
\* behind those of the tables are, in order, those of the sections with a
\* qualifying line, each under the name of its first qualifying line.
C18_NameFromFirstThreeLines ==
    (variant = "pdf" /\ pc = "unique") =>
        LET sections == split_into_product_sections(all_text)
            named == SelectSeq(sections, LAMBDA section : QualifyingLines(section) # {})
            tables == Len(TableRecords(Val(pdf), <<>>))
        IN /\ \A k \in 1..Len(sections) :
                 extract_product_from_text_section(sections[k]) = None
                     <=> QualifyingLines(sections[k]) = {}
           /\ Len(candidates) = tables + Len(named)
           /\ \A k \in 1..Len(named) :
                 Get(candidates[tables + k], "productName") = Some(FirstQualifying(named[k]))

\* the text step met a section whose first line does not qualify and whose
\* second does, and a section with a description and no qualifying line
C18_SecondLineAndNoName ==
    /\ variant = "pdf" /\ pc = "unique"
    /\ LET sections == split_into_product_sections(all_text)
       IN /\ \E k \in 1..Len(sections) :
                 /\ QualifyingLines(sections[k]) # {}
                 /\ 1 \notin QualifyingLines(sections[k])
          /\ \E k \in 1..Len(sections) :
                 /\ QualifyingLines(sections[k]) = {}
                 /\ extract_description_from_text(sections[k]) # None

---------------------------------------------------------------------------
\* the pieces of the text after the five splits, each applied to every
\* piece of the one before: all-caps heading (1), numbered marker (2),
\* bullet marker (3), "Product N" (4), "Item N" (5)
CascadePieces(text) ==
    SplitSections(SplitSections(SplitSections(SplitSections(SplitSections(
        <<text>>, 1), 2), 3), 4), 5)

---------------------------------------------------------------------------
\* The requests that were issued and whose response has not arrived.  The
\* simple crawler makes blocking calls, each finished within its step; the
\* spider's requests are with the engine from the end of parse until their
\* responses arrive.
InFlight ==
    IF variant = "scrapy" /\ pc = "crawling"
    THEN Len(company_links) + Len(product_links) ELSE 0

\* C19: in the web variant at most one network request is in flight at any
\* time, and between any two consecutive product-page fetches the fixed
\* politeness delay takes place: of n product pages requested, at least
\* n - 1 were followed by the delay.
C19_OneRequestAndDelay ==
    Web => /\ InFlight <= 1
           /\ Requested("product") <= slept + 1

---------------------------------------------------------------------------
\* the non-empty lines of the text the company name is taken from
CompanyLines ==
    IF pdf = None THEN <<>>
    ELSE NonEmptyLines(CompanyText(Val(pdf), PagesToCheck(Len(Val(pdf)))))

\* no scanned line has a legal-entity marker or is all-caps
NoMarkedLine ==
    \A i \in 1..Len(ScannedLines) :
        ~LegalEntityLine(ScannedLines[i]) /\ ~AllCapsLine(ScannedLines[i])

\* the first of the first 5 lines with shortest to 49 characters, else the
\* placeholder
FallbackName(shortest) ==
    LET fit == {i \in 1..Len(CompanyLines) :
                   /\ i <= 5
                   /\ CharLen(CompanyLines[i]) >= shortest
                   /\ CharLen(CompanyLines[i]) <= 49}
    IN IF fit = {} THEN <<"Unknown", " ", "Company">>
       ELSE CompanyLines[CHOOSE i \in fit : \A j \in fit : i <= j]

\* C21 as stated: when no scanned line has a legal-entity marker or is
\* all-caps, the company name is the first of the first 5 non-empty lines
\* whose length is between 5 and 49, else the placeholder.
C21_FallbackFromFive ==
    (variant = "pdf" /\ pdf # None /\ "companyName" \in DOMAIN company_data /\ NoMarkedLine)
        => company_data["companyName"] = Some(FallbackName(5))

\* C21, amended: when no scanned line has a legal-entity marker or is
\* all-caps, the company name is the first of the first 5 non-empty lines
\* whose length is between 6 and 49, else the placeholder "Unknown Company".
C21_FallbackFromSix ==
    (variant = "pdf" /\ pdf # None /\ "companyName" \in DOMAIN company_data /\ NoMarkedLine)
        => company_data["companyName"] = Some(FallbackName(6))

\* the fallback chose a line although a line of 5 characters stands before it
C21_FiveCharacterLineSkipped ==
    /\ variant = "pdf" /\ pdf # None /\ "companyName" \in DOMAIN company_data
    /\ NoMarkedLine
    /\ FallbackName(6) # <<"Unknown", " ", "Company">>
    /\ FallbackName(5) # FallbackName(6)
    /\ CharLen(FallbackName(5)) = 5

---------------------------------------------------------------------------
\* the cells of the row under a RECYCLED header that hold "N%", N in 0..100
RecycledCells(headers, row) ==
    {i \in 1..Len(row) : /\ i <= Len(headers)
                         /\ row[i] # <<>>
                         /\ FirstRule(headers[i]) = "RECYCLED"
                         /\ pdf_extract_percentage(row[i]) # None
                         /\ Val(pdf_extract_percentage(row[i])) \in 0..100}

\* what the text path stores for "Recycled content: " followed by the cell
TextPathRecycled(cell) ==
    Get(pdf_extract_specs_from_text(<<"Recycled", " ", "content", ":", " ">> \o cell),
        "recycledContent")

\* C22: for a table data row with a name and a cell under a RECYCLED header
\* holding "N%", the emitted record has recycledContent = N for every N from
\* 0 to 100, N = 0 included, the value the text path stores for
\* "recycled content: N%".
C22_RecycledPercentStored ==
    \A dr \in DataRowsRead :
        NameText(dr[1], dr[2]) =>
            \A i \in RecycledCells(dr[1], dr[2]) :
                LET record == TableRowFrom(dr[1], dr[2], 1, EmptyDict)
                IN /\ Get(record, "recycledContent") = pdf_extract_percentage(dr[2][i])
                   /\ Get(record, "recycledContent") = TextPathRecycled(dr[2][i])

---------------------------------------------------------------------------
\* C23: in both crawlers, when the main page gave no description (the
\* description of the profile is null) and a company-info page offers a
\* non-empty description candidate, the handler of that page completes
\* without raising and the description of the profile becomes the candidate.
C23_NullDescriptionFilled ==
    [][(/\ Web /\ pc # "start"
        /\ "description" \in DOMAIN company_data
        /\ company_data["description"] = None
        /\ last_page' # None
        /\ Truthy(Val(last_page').description))
          => /\ Get(company_data', "description") = Val(last_page').description
             /\ failed_pages' = failed_pages]_vars

---------------------------------------------------------------------------
\* the specifications the tables and definition lists of the page give
StructuredSpecs(soup) == ParseRows(soup.rows, EmptyDict, variant)

\* the name the running crawler takes from the page
PageName(soup) == ExtractBySelectors(soup.names, IF variant = "simple" THEN 2 ELSE 0)

\* the record has the weight and the capacity of the structured sources
\* wherever they gave one
StructuredKept(record, specs) ==
    /\ "weight" \in DOMAIN specs =>
          /\ record.weight = specs["weight"]
          /\ record.weightUnit = Get(specs, "weight_unit")
    /\ "capacity" \in DOMAIN specs =>
          /\ record.capacity = specs["capacity"]
          /\ record.capacityUnit = Get(specs, "capacity_unit")

\* C24: in both web variants a weight or capacity, value and unit, taken
\* from a specification table or definition list of a product page is never
\* overwritten by the free-text scan of the same page: every stored record
\* has the structured weight and capacity of its page.
C24_StructuredNotOverwritten ==
    Web => \A k \in 1..Len(products_data) :
               \A soup \in ProductSoups :
                   PageName(soup) = products_data[k].productName
                       => StructuredKept(products_data[k], StructuredSpecs(soup))

---------------------------------------------------------------------------
\* the quantity of the record is present exactly when its unit is
Paired(record, field, unitField) ==
    Get(record, field) # None <=> Get(record, unitField) # None

\* C25: in every product record of every variant weight is present if and
\* only if weightUnit is present, and capacity if and only if capacityUnit,
\* after any sequence of table, definition-list and free-text steps: in the
\* records held at every step, in the candidates of the document extractor
\* and in the records of every success envelope.
C25_QuantityAndUnitTogether ==
    \A records \in {products_data, candidates}
                       \cup {output[e].productsData :
                                e \in {f \in 1..Len(output) : output[f].success}} :
        \A k \in 1..Len(records) :
            /\ Paired(records[k], "weight", "weightUnit")
            /\ Paired(records[k], "capacity", "capacityUnit")

\* a run printed records of which one has a weight with its unit and no
\* capacity, and one has a capacity with its unit
C25_WeightOnlyAndCapacity ==
    /\ Printed /\ output[1].success
    /\ \E k \in 1..Len(output[1].productsData) :
          /\ Get(output[1].productsData[k], "weight") # None
          /\ Get(output[1].productsData[k], "weightUnit") # None
          /\ Get(output[1].productsData[k], "capacity") = None
    /\ \E k \in 1..Len(output[1].productsData) :
          /\ Get(output[1].productsData[k], "capacity") # None
          /\ Get(output[1].productsData[k], "capacityUnit") # None

---------------------------------------------------------------------------
\* the pages of the kind that were requested
PagesRequested(kind) == {requests[i].url : i \in {j \in 1..Len(requests) : requests[j].kind = kind}}

\* C26: the simple crawler is deterministic in what it visits: for a fixed
\* main page every run requests the same set of company-info pages and the
\* same set of product pages, also when the page has more than 3 eligible
\* company-info links or more than 20 eligible product links: the sets of
\* every finished run are those of the run that takes the links in the
\* order SomeOrder.
C26_SameVisitsEveryRun ==
    (variant = "simple" /\ Printed /\ output[1].success) =>
        /\ PagesRequested("company")
              = Range(Take(SomeOrder(find_company_info_links(Val(main_soup))),
                           CompanyPageLimit))
        /\ PagesRequested("product")
              = Range(Take(SomeOrder(find_product_links(Val(main_soup))),
                           SimpleProductLimit))

---------------------------------------------------------------------------
\* C27: in every success envelope of every variant totalProducts is the
\* number of records in productsData of that envelope; in the document
\* extractor that is the number of candidates left after the duplicate
\* removal.
C27_TotalIsRecordCount ==
    \A e \in 1..Len(output) :
        output[e].success =>
            /\ output[e].totalProducts = Len(output[e].productsData)
            /\ variant = "pdf" =>
                  output[e].totalProducts = Len(FirstOfEachKey(candidates))

\* the document extractor printed a success envelope with two or more
\* records after the duplicate removal dropped a candidate
C27_CountAfterDuplicateRemoval ==
    /\ variant = "pdf" /\ Printed /\ output[1].success
    /\ output[1].totalProducts >= 2
    /\ Len(candidates) > output[1].totalProducts
====
